---- MODULE Spec2Model ----
(***************************************************************************)
(* HeapKitDemo: the allocation & bucket tracker (HeapAnalyzer) and the bug *)
(* simulator (BugSimulator) as one state machine.                          *)
(*                                                                         *)
(* Representation.  A JavaScript Map is a function whose DOMAIN is the set *)
(* of keys.  Allocation objects are shared by reference between the        *)
(* allocation table, the bucket arrays and the timeline; here the table    *)
(* owns the record and buckets and timeline events hold the id.  A bug     *)
(* record keeps references to allocation objects that outlive the          *)
(* tracker's reset; only their immutable fields (id, size, type,           *)
(* timestamp) are ever read through a bug record, so the bug record holds  *)
(* a copy of those.  JavaScript's undefined/null is 0 for ids and          *)
(* timestamps (real ids and Date.now() values are positive).               *)
(* Date.now() is an input of each operation: a non-decreasing clock, two   *)
(* consecutive readings of which may be equal.                             *)
(***************************************************************************)
EXTENDS Integers, Sequences, FiniteSets, TLC

VARIABLES
    allocations,   \* HeapAnalyzer.allocations : id -> allocation record
    buckets,       \* HeapAnalyzer.buckets     : bucket size -> sequence of ids
    timeline,      \* HeapAnalyzer.timeline    : sequence of events
    nextId,        \* HeapAnalyzer.nextId
    stats,         \* HeapAnalyzer.stats
    activeBugs,    \* BugSimulator.activeBugs  : bug id -> bug record
    nextBugId,     \* BugSimulator.nextBugId
    now,           \* last reading of Date.now()
    maxIssued,     \* history: largest id recordAllocation ever returned
    csize,         \* argument of a stand-alone findBucketForSize call
    cresult,       \* its result
    limits,        \* what the callers of this run may do (fixed by Init)
    opCount        \* history: operations and clock ticks so far in this run

vars == <<allocations, buckets, timeline, nextId, stats, activeBugs,
          nextBugId, now, maxIssued, csize, cresult, limits, opCount>>

trackerVars == <<allocations, buckets, timeline, nextId, stats>>
bugVars == <<activeBugs, nextBugId>>
classifyVars == <<csize, cresult, limits>>

(***************************************************************************)
(* Bounds of the model.                                                    *)
(***************************************************************************)
MaxOps == 4
MaxClassifySize == 8200
MaxScenarioOps == 5
MaxReuseOps == 6
MaxComplexOps == 3
MaxStrategyOps == 3
MaxQueryOps == 3
PreFilled == 2
PreAllocated == 99

Sizes == {64, 100}
Types == {"ArrayBuffer", "String"}
OverflowSizes == {8, 200}
ClassifyInputs == (-5)..MaxClassifySize
SeveritySizes == {0, 1, 8, 15, 16, 17, 18, 64, 99, 100, 101, 102, 200}
SeverityTypes ==
    {"ArrayBuffer", "Object", "String", "Function", "WebAssembly", "VTable",
     "Array", "Map", "Set", "Uint8Array"}

\* the callers of the engine: which arguments they pass, and how many
\* operations and clock ticks a run has
engineLimits ==
    [ops |-> MaxOps, firstId |-> 1, sizes |-> Sizes, types |-> Types,
     overflowSizes |-> OverflowSizes]

\* callers that fill one bucket, with a type only the longer of the two
\* lists of critical types names
scenarioLimits ==
    [ops |-> MaxScenarioOps, firstId |-> 1, sizes |-> {64},
     types |-> {"WebAssembly", "String"}, overflowSizes |-> {8}]

\* callers that free and re-allocate objects of one size and type
reuseLimits ==
    [ops |-> MaxReuseOps, firstId |-> 1, sizes |-> {64}, types |-> {"String"},
     overflowSizes |-> {8}]

\* callers of a heap that already holds many objects, who work on the most
\* recent of them and on the ones they add
complexLimits ==
    [ops |-> MaxComplexOps, firstId |-> PreAllocated, sizes |-> {64},
     types |-> {"ArrayBuffer", "String"}, overflowSizes |-> {8, 64}]

\* callers of a heap that holds a few objects of one bucket, who add
\* objects of critical and of plain types
strategyLimits ==
    [ops |-> MaxStrategyOps, firstId |-> 1, sizes |-> {64},
     types |-> {"ArrayBuffer", "Map"}, overflowSizes |-> {8}]

\* callers that also ask questions between their operations
queryLimits ==
    [ops |-> MaxQueryOps, firstId |-> 1, sizes |-> Sizes, types |-> Types,
     overflowSizes |-> {8}]

\* ids a caller may pass: the ids of the table from the first one the
\* callers work on, and one that is unknown
Ids == limits.firstId..nextId
BugIds == 1..nextBugId

\* an operation that succeeds, or n clock ticks, use up the run's budget
spend(n) == opCount + n <= limits.ops /\ opCount' = opCount + n

Min(S) == CHOOSE x \in S : \A y \in S : x <= y

Max2(a, b) == IF a >= b THEN a ELSE b

(***************************************************************************)
(* Map helpers (JavaScript Map.set / Map.get-or-default / Map.delete).     *)
(***************************************************************************)
EmptyMap == [k \in {} |-> 0]
MapSet(m, k, v) == [x \in (DOMAIN m) \cup {k} |-> IF x = k THEN v ELSE m[x]]
MapDelete(m, k) == [x \in (DOMAIN m) \ {k} |-> m[x]]

(***************************************************************************)
(* Bucket classifier: HeapAnalyzer.findBucketForSize.                      *)
(***************************************************************************)
bucketSizes ==
    <<8, 16, 32, 48, 64, 80, 96, 112, 128,
      144, 160, 192, 224, 256, 320, 384,
      448, 512, 576, 640, 704, 768, 832, 896, 960, 1024>>

\* variant: rounds down instead of up
ceil_floor(n, d) == n \div d

\* Math.ceil(n / d) for an integer n and d > 0
ceil(n, d) == IF n % d = 0 THEN n \div d ELSE (n \div d) + 1

\* for (const bucketSize of bucketSizes) if (size <= bucketSize) return bucketSize;
\* the empty set when the loop falls through
firstFit(size) ==
    LET hits == {i \in 1..Len(bucketSizes) : size <= bucketSizes[i]}
    IN  IF hits = {} THEN {} ELSE {bucketSizes[Min(hits)]}

findBucketForSize(size) ==
    IF size <= 0 THEN 0
    ELSE IF size <= 1024 /\ firstFit(size) # {}
         THEN CHOOSE b \in firstFit(size) : TRUE
    ELSE IF size <= 4096 THEN ceil(size, 128) * 128
    ELSE ceil(size, 4096) * 4096

(***************************************************************************)
(* Tracker: HeapAnalyzer.                                                  *)
(***************************************************************************)
initialStats ==
    [totalAllocations |-> 0, totalDeallocations |-> 0,
     maxLiveAllocations |-> 0, currentLiveAllocations |-> 0]

\* const allocation = { id, size, type, timestamp, metadata, status: "allocated" }
\* (freedAt is undefined until the record is freed)
newAllocation(id, size, type, t) ==
    [id |-> id, size |-> size, type |-> type, timestamp |-> t,
     metadata |-> EmptyMap, status |-> "allocated", freedAt |-> 0]

\* variant: unshift instead of push
bucketPush_front(bk, b, id) ==
    IF b \in DOMAIN bk THEN [bk EXCEPT ![b] = <<id>> \o @]
    ELSE MapSet(bk, b, <<id>>)

\* if (!buckets.has(b)) buckets.set(b, []); buckets.get(b).push(allocation)
bucketPush(bk, b, id) ==
    IF b \in DOMAIN bk THEN [bk EXCEPT ![b] = Append(@, id)]
    ELSE MapSet(bk, b, <<id>>)

\* variant: the peak follows the live count instead of its running maximum
statsAfterAllocation_peakIsLive(st) ==
    LET live == st.currentLiveAllocations + 1
    IN  [st EXCEPT !.totalAllocations = @ + 1,
                   !.currentLiveAllocations = live,
                   !.maxLiveAllocations = live]

\* stats update of recordAllocation
statsAfterAllocation(st) ==
    LET live == st.currentLiveAllocations + 1
    IN  [st EXCEPT !.totalAllocations = @ + 1,
                   !.currentLiveAllocations = live,
                   !.maxLiveAllocations = IF live > @ THEN live ELSE @]

\* variant: freeing a freed record brings it back
freedRecord_toggle(allocation, t) ==
    [allocation EXCEPT
        !.status = IF @ = "allocated" THEN "freed" ELSE "allocated",
        !.freedAt = t]

\* allocation.status = "freed"; allocation.freedAt = timestamp
freedRecord(allocation, t) ==
    [allocation EXCEPT !.status = "freed", !.freedAt = t]

\* variant: the live count is not taken below zero
statsAfterDeallocation_floor(st) ==
    [st EXCEPT !.totalDeallocations = @ + 1,
               !.currentLiveAllocations = IF @ > 0 THEN @ - 1 ELSE 0]

\* stats update of recordDeallocation
statsAfterDeallocation(st) ==
    [st EXCEPT !.totalDeallocations = @ + 1,
               !.currentLiveAllocations = @ - 1]

\* variant: the counter is read but not incremented
idAfter_stuck(n) == n

\* this.nextId++ : the value the counter takes after one allocation
idAfter(n) == n + 1

allocationEvent(id, t) ==
    [type |-> "allocation", timestamp |-> t, allocation |-> id]

deallocationEvent(id, t) ==
    [type |-> "deallocation", timestamp |-> t, allocation |-> id]

bugEvent(sourceId, bugType, details, t) ==
    [type |-> "bug", timestamp |-> t, sourceId |-> sourceId,
     bugType |-> bugType, details |-> details]

\* variant: the bug event overwrites the last event instead of following it
timelineAfterBug_overwrite(tl, allocs, sourceId, bugType, details, t) ==
    IF sourceId \notin DOMAIN allocs THEN tl
    ELSE [tl EXCEPT ![Len(tl)] = bugEvent(sourceId, bugType, details, t)]

\* what HeapAnalyzer.recordBug does to the timeline, given the clock reading
timelineAfterBug(tl, allocs, sourceId, bugType, details, t) ==
    IF sourceId \notin DOMAIN allocs THEN tl
    ELSE Append(tl, bugEvent(sourceId, bugType, details, t))

\* What a call gives back to its caller: undefined, undefined after a
\* console.warn, an allocation id, an { error } object, or the bug record
\* stored under the given bug id.
Void == [kind |-> "void"]
Warned(msg) == [kind |-> "warn", msg |-> msg]
Returned(id) == [kind |-> "id", id |-> id]
Failed(msg) == [kind |-> "error", error |-> msg]
ReturnedBug(bugId) == [kind |-> "bug", id |-> bugId]

\* return id  (the value of this.nextId before the increment)
recordAllocationResult == Returned(nextId)

recordDeallocationResult(id) ==
    IF id \notin DOMAIN allocations
    THEN Warned("Tried to deallocate unknown ID")
    ELSE Void

recordBugResult(sourceId) ==
    IF sourceId \notin DOMAIN allocations
    THEN Warned("Tried to record bug for unknown ID")
    ELSE Void

\* the state after construction of the analyzer and the simulator
Constructed ==
    /\ allocations = EmptyMap
    /\ buckets = EmptyMap
    /\ timeline = <<>>
    /\ nextId = 1
    /\ stats = initialStats
    /\ activeBugs = EmptyMap
    /\ nextBugId = 1
    /\ now = 1
    /\ maxIssued = 0

\* no stand-alone classifier call has returned yet
pendingResult == [done |-> FALSE, value |-> 0]

Init ==
    /\ Constructed
    /\ csize = 0
    /\ cresult = pendingResult
    /\ limits = engineLimits
    /\ opCount = 0

recordAllocation(size, type) ==
    /\ spend(1)
    /\ LET id == nextId
           t == now
           allocation == newAllocation(id, size, type, t)
           bucketSize == findBucketForSize(size)
       IN  /\ nextId' = idAfter(nextId)
           /\ allocations' = MapSet(allocations, id, allocation)
           /\ buckets' = bucketPush(buckets, bucketSize, id)
           /\ timeline' = Append(timeline, allocationEvent(id, t))
           /\ stats' = statsAfterAllocation(stats)
           /\ maxIssued' = Max2(maxIssued, id)
    /\ UNCHANGED <<bugVars, now, classifyVars>>

\* variant: the deallocation is counted before the id is looked up
recordDeallocation_countsFirst(id) ==
    IF id \notin DOMAIN allocations
    THEN /\ stats' = statsAfterDeallocation(stats)
         /\ UNCHANGED <<allocations, buckets, timeline, nextId, bugVars, now,
                        maxIssued, classifyVars, opCount>>
    ELSE /\ spend(1)
         /\ allocations' = [allocations EXCEPT ![id] = freedRecord(@, now)]
         /\ timeline' = Append(timeline, deallocationEvent(id, now))
         /\ stats' = statsAfterDeallocation(stats)
         /\ UNCHANGED <<buckets, nextId, bugVars, now, maxIssued, classifyVars>>

\* variant: a second deallocation of the same id is refused
recordDeallocation_idempotent(id) ==
    IF id \notin DOMAIN allocations \/ allocations[id].status = "freed"
    THEN UNCHANGED vars
    ELSE /\ spend(1)
         /\ allocations' = [allocations EXCEPT ![id] = freedRecord(@, now)]
         /\ timeline' = Append(timeline, deallocationEvent(id, now))
         /\ stats' = statsAfterDeallocation(stats)
         /\ UNCHANGED <<buckets, nextId, bugVars, now, maxIssued, classifyVars>>

recordDeallocation(id) ==
    IF recordDeallocationResult(id).kind = "warn"
    THEN UNCHANGED vars
    ELSE /\ spend(1)
         /\ allocations' = [allocations EXCEPT ![id] = freedRecord(@, now)]
         /\ timeline' = Append(timeline, deallocationEvent(id, now))
         /\ stats' = statsAfterDeallocation(stats)
         /\ UNCHANGED <<buckets, nextId, bugVars, now, maxIssued, classifyVars>>

\* variant: the source id is not looked up before the event is logged
recordBug_unguarded(sourceId, bugType) ==
    /\ spend(1)
    /\ timeline' = Append(timeline, bugEvent(sourceId, bugType, EmptyMap, now))
    /\ UNCHANGED <<allocations, buckets, nextId, stats, bugVars, now,
                   maxIssued, classifyVars>>

\* a caller's own recordBug(sourceId, bugType) with the default details = {}
recordBug(sourceId, bugType) ==
    IF recordBugResult(sourceId).kind = "warn"
    THEN UNCHANGED vars
    ELSE /\ spend(1)
         /\ timeline' = timelineAfterBug(timeline, allocations, sourceId,
                                         bugType, EmptyMap, now)
         /\ UNCHANGED <<allocations, buckets, nextId, stats, bugVars, now,
                        maxIssued, classifyVars>>

\* variant: the id counter survives the reset
reset_keepsCounter ==
    /\ spend(1)
    /\ allocations' = EmptyMap
    /\ buckets' = EmptyMap
    /\ timeline' = <<>>
    /\ stats' = initialStats
    /\ UNCHANGED <<nextId, bugVars, now, maxIssued, classifyVars>>

reset ==
    /\ spend(1)
    /\ allocations' = EmptyMap
    /\ buckets' = EmptyMap
    /\ timeline' = <<>>
    /\ nextId' = 1
    /\ stats' = initialStats
    /\ UNCHANGED <<bugVars, now, maxIssued, classifyVars>>

\* ---- read operations of the tracker ----

getAllocationsInBucket(bucketSize) ==
    IF bucketSize \in DOMAIN buckets THEN buckets[bucketSize] ELSE <<>>

\* bucketed.findIndex(a => a.id === id), 1-based; 0 when absent
findIndex(bucketed, id) ==
    LET at == {i \in 1..Len(bucketed) : allocations[bucketed[i]].id = id}
    IN  IF at = {} THEN 0 ELSE Min(at)

\* variant: a freed neighbour counts as no neighbour
findAdjacentAllocations_liveOnly(id) ==
    IF id \notin DOMAIN allocations THEN [prev |-> 0, next |-> 0]
    ELSE LET allocation == allocations[id]
             bucketSize == findBucketForSize(allocation.size)
             bucketed == getAllocationsInBucket(bucketSize)
             index == findIndex(bucketed, id)
             live(i) == allocations[bucketed[i]].status = "allocated"
         IN  IF index = 0 THEN [prev |-> 0, next |-> 0]
             ELSE [prev |-> IF index > 1 /\ live(index - 1)
                            THEN bucketed[index - 1] ELSE 0,
                   next |-> IF index < Len(bucketed) /\ live(index + 1)
                            THEN bucketed[index + 1] ELSE 0]

\* prev / next are allocation ids; 0 is null
findAdjacentAllocations(id) ==
    IF id \notin DOMAIN allocations THEN [prev |-> 0, next |-> 0]
    ELSE LET allocation == allocations[id]
             bucketSize == findBucketForSize(allocation.size)
             bucketed == getAllocationsInBucket(bucketSize)
             index == findIndex(bucketed, id)
         IN  IF index = 0 THEN [prev |-> 0, next |-> 0]
             ELSE [prev |-> IF index > 1 THEN bucketed[index - 1] ELSE 0,
                   next |-> IF index < Len(bucketed)
                            THEN bucketed[index + 1] ELSE 0]

\* allocations.filter(a => a.status === status).length
countWithStatus(bucketed, status) ==
    Cardinality({i \in 1..Len(bucketed) : allocations[bucketed[i]].status = status})

\* variant: the quotient is truncated to a whole number
utilizationRate_whole(active, length) ==
    IF length > 0 THEN [num |-> active \div length, den |-> 1]
    ELSE [num |-> 0, den |-> 1]

\* active / allocations.length is a fraction: numerator and denominator
\* (the number 0 is 0 / 1)
utilizationRate(active, length) ==
    IF length > 0 THEN [num |-> active, den |-> length]
    ELSE [num |-> 0, den |-> 1]

\* the elements of a set of numbers in ascending order
RECURSIVE sortAscending(_)
sortAscending(S) ==
    IF S = {} THEN <<>> ELSE <<Min(S)>> \o sortAscending(S \ {Min(S)})

\* Array.from(this.buckets.keys()).sort((a, b) => a - b)
getActiveBuckets == sortAscending(DOMAIN buckets)

\* Array.from(this.allocations.values()).filter(a => a.status === "allocated"),
\* as ids in the insertion order of the Map
getActiveAllocations ==
    LET live(id) == allocations[id].status = "allocated"
    IN  SelectSeq(sortAscending(DOMAIN allocations), live)

\* an object keyed by bucket size, one entry per bucket of the Map
generateBucketStats ==
    [bucketSize \in DOMAIN buckets |->
        LET bucketed == buckets[bucketSize]
            active == countWithStatus(bucketed, "allocated")
            freed == countWithStatus(bucketed, "freed")
        IN  [totalAllocations |-> Len(bucketed),
             activeAllocations |-> active,
             freedAllocations |-> freed,
             utilizationRate |-> utilizationRate(active, Len(bucketed))]]

\* stats[type].totalSize += allocation.size over the given records
RECURSIVE totalSize(_)
totalSize(ids) ==
    IF ids = {} THEN 0
    ELSE LET id == CHOOSE x \in ids : TRUE
         IN  allocations[id].size + totalSize(ids \ {id})

\* an object keyed by type, one entry per type that has a record
generateTypeStats ==
    [type \in {allocations[id].type : id \in DOMAIN allocations} |->
        LET ofType == {id \in DOMAIN allocations : allocations[id].type = type}
        IN  [count |-> Cardinality(ofType),
             totalSize |-> totalSize(ofType),
             active |-> Cardinality({id \in ofType :
                                        allocations[id].status = "allocated"}),
             freed |-> Cardinality({id \in ofType :
                                       allocations[id].status # "allocated"})]]

(***************************************************************************)
(* Type names are JavaScript strings; String.prototype.includes is a       *)
(* substring test, so a type name is read as its sequence of characters.   *)
(***************************************************************************)
chars ==
    [ArrayBuffer |-> <<"A", "r", "r", "a", "y", "B", "u", "f", "f", "e", "r">>,
     Object |-> <<"O", "b", "j", "e", "c", "t">>,
     String |-> <<"S", "t", "r", "i", "n", "g">>,
     Function |-> <<"F", "u", "n", "c", "t", "i", "o", "n">>,
     WebAssembly |-> <<"W", "e", "b", "A", "s", "s", "e", "m", "b", "l", "y">>,
     VTable |-> <<"V", "T", "a", "b", "l", "e">>,
     Array |-> <<"A", "r", "r", "a", "y">>,
     Map |-> <<"M", "a", "p">>,
     Set |-> <<"S", "e", "t">>,
     Uint8Array |-> <<"U", "i", "n", "t", "8", "A", "r", "r", "a", "y">>]

\* haystack.includes(needle)
includes(haystack, needle) ==
    LET h == chars[haystack]
        n == chars[needle]
    IN  \E off \in 0..(Len(h) - Len(n)) :
            \A j \in 1..Len(n) : h[off + j] = n[j]

\* list.some(type => name.includes(type))
someIncluded(list, name) == \E i \in 1..Len(list) : includes(name, list[i])

(***************************************************************************)
(* Bug simulator: BugSimulator.                                            *)
(***************************************************************************)
criticalTypes == <<"Function", "ArrayBuffer", "WebAssembly", "VTable">>
sensitiveTypes == <<"Array", "Object", "Map", "Set">>

\* the part of an allocation object a bug record can be asked for later
Ref(allocation) ==
    [id |-> allocation.id, size |-> allocation.size,
     type |-> allocation.type, timestamp |-> allocation.timestamp]

NoRef == [id |-> 0, size |-> 0, type |-> "undefined", timestamp |-> 0]

\* impact: {} before any field is set
emptyImpact ==
    [severity |-> "undefined", notes |-> <<>>,
     corruptedAllocation |-> NoRef, reusingAllocation |-> NoRef,
     exampleAllocation |-> NoRef,
     originalType |-> "undefined", confusedType |-> "undefined"]

\* variant: the smallest overflows get a label of their own
assessOverflowSeverity_minor(source, target, overflowSize) ==
    IF someIncluded(criticalTypes, target.type) THEN "critical"
    ELSE IF someIncluded(sensitiveTypes, target.type) THEN "high"
    ELSE IF overflowSize > 100 THEN "high"
    ELSE IF overflowSize > 16 THEN "medium"
    ELSE "minor"

\* variant: the sensitive names are tested before the critical ones
assessOverflowSeverity_sensitiveFirst(source, target, overflowSize) ==
    IF someIncluded(sensitiveTypes, target.type) THEN "high"
    ELSE IF someIncluded(criticalTypes, target.type) THEN "critical"
    ELSE IF overflowSize > 100 THEN "high"
    ELSE IF overflowSize > 16 THEN "medium"
    ELSE "low"

assessOverflowSeverity(source, target, overflowSize) ==
    IF someIncluded(criticalTypes, target.type) THEN "critical"
    ELSE IF someIncluded(sensitiveTypes, target.type) THEN "high"
    ELSE IF overflowSize > 100 THEN "high"
    ELSE IF overflowSize > 16 THEN "medium"
    ELSE "low"

assessUafSeverity(freed, reuser) ==
    IF someIncluded(criticalTypes, reuser.type) THEN "critical"
    ELSE IF someIncluded(sensitiveTypes, reuser.type) THEN "high"
    ELSE IF someIncluded(criticalTypes, freed.type) THEN "high"
    ELSE "medium"

\* variant: the overflow reaches past freed records to the next live one
overflowImpact_nextLive(sourceId, overflowSize) ==
    LET source == allocations[sourceId]
        bucketed == getAllocationsInBucket(findBucketForSize(source.size))
        index == findIndex(bucketed, sourceId)
        live == {i \in (index + 1)..Len(bucketed) :
                    allocations[bucketed[i]].status = "allocated"}
    IN  IF live # {}
        THEN [emptyImpact EXCEPT
                !.corruptedAllocation = Ref(allocations[bucketed[Min(live)]]),
                !.severity = assessOverflowSeverity(
                                 source, allocations[bucketed[Min(live)]],
                                 overflowSize)]
        ELSE [emptyImpact EXCEPT
                !.severity = "low",
                !.notes = <<"No active allocation would be directly corrupted">>]

\* impact computed by simulateOverflow for an allocated source
overflowImpact(sourceId, overflowSize) ==
    LET source == allocations[sourceId]
        adjacent == findAdjacentAllocations(sourceId)
    IN  IF adjacent.next # 0 /\ allocations[adjacent.next].status = "allocated"
        THEN [emptyImpact EXCEPT
                !.corruptedAllocation = Ref(allocations[adjacent.next]),
                !.severity = assessOverflowSeverity(
                                 source, allocations[adjacent.next], overflowSize)]
        ELSE [emptyImpact EXCEPT
                !.severity = "low",
                !.notes = <<"No active allocation would be directly corrupted">>]

\* allocationsInBucket.filter(alloc => alloc.status === 'allocated'
\*                                     && alloc.timestamp > freedAt)
potentialReusers(freedId) ==
    LET freedAlloc == allocations[freedId]
        bucketSize == findBucketForSize(freedAlloc.size)
        allocationsInBucket == getAllocationsInBucket(bucketSize)
        freedAt == freedAlloc.freedAt
        keep(id) == /\ allocations[id].status = "allocated"
                    /\ allocations[id].timestamp > freedAt
    IN  SelectSeq(allocationsInBucket, keep)

\* variant: the most recent candidate is taken
mostLikelyReuser_latest(reusers) == reusers[Len(reusers)]

\* potentialReusers.sort((a, b) => a.timestamp - b.timestamp)[0]: the sort is
\* stable, so the first of the records with the least timestamp
mostLikelyReuser(reusers) ==
    LET least == Min({allocations[reusers[i]].timestamp : i \in 1..Len(reusers)})
        first == Min({i \in 1..Len(reusers) :
                          allocations[reusers[i]].timestamp = least})
    IN  reusers[first]

\* impact computed by simulateUseAfterFree for a freed allocation
uafImpact(freedId) ==
    LET freedAlloc == allocations[freedId]
        reusers == potentialReusers(freedId)
    IN  IF Len(reusers) > 0
        THEN [emptyImpact EXCEPT
                !.reusingAllocation = Ref(allocations[mostLikelyReuser(reusers)]),
                !.severity = assessUafSeverity(
                                 freedAlloc, allocations[mostLikelyReuser(reusers)])]
        ELSE [emptyImpact EXCEPT
                !.severity = "medium",
                !.notes = <<"No reuse detected yet, but memory could be reused later">>]

\* variant: freed records also serve as examples
wrongTypeExamples_anyStatus(wrongType) ==
    {id \in DOMAIN allocations : allocations[id].type = wrongType}

\* Array.from(allocations.values()).filter(type === wrongType && allocated),
\* as the ids in insertion order of the Map
wrongTypeExamples(wrongType) ==
    {id \in DOMAIN allocations :
        allocations[id].type = wrongType /\ allocations[id].status = "allocated"}

\* impact computed by simulateTypeConfusion for an allocated source
confusionImpact(sourceId, wrongType) ==
    LET source == allocations[sourceId]
        correctType == source.type
        base == [emptyImpact EXCEPT !.originalType = correctType,
                                    !.confusedType = wrongType]
        examples == wrongTypeExamples(wrongType)
    IN  IF examples # {}
        THEN LET wrongTypeExample == allocations[Min(examples)]
                 sizeDiff == source.size - wrongTypeExample.size
             IN  [base EXCEPT
                    !.severity = IF sizeDiff > 0 THEN "high" ELSE "medium",
                    !.notes = IF sizeDiff > 0
                              THEN <<correctType, " is larger than ", wrongType,
                                     ", potential out-of-bounds access">>
                              ELSE IF sizeDiff < 0
                              THEN <<correctType, " is smaller than ", wrongType,
                                     ", potential metadata corruption">>
                              ELSE <<"Types have same size, but internal layout differences may cause issues">>,
                    !.exampleAllocation = Ref(wrongTypeExample)]
        ELSE [base EXCEPT
                !.severity = "unknown",
                !.notes = <<"No examples of ", wrongType,
                            " available for comparison">>]

\* bugDetails = { id, type, sourceId, source, [overflowSize | wrongType], timestamp, impact }
bugDetails(bugId, bugType, sourceId, overflowSize, wrongType, t, impact) ==
    [id |-> bugId, type |-> bugType, sourceId |-> sourceId,
     source |-> Ref(allocations[sourceId]),
     overflowSize |-> overflowSize, wrongType |-> wrongType,
     timestamp |-> t, impact |-> impact]

\* this.nextBugId++ : the value the counter takes after one simulation
bugIdAfter(n) == n + 1

\* variant: the simulation leaves a mark on the source allocation
storeBug_marksSource(bug, details, t2) ==
    /\ spend(1 + (t2 - now))
    /\ nextBugId' = bugIdAfter(nextBugId)
    /\ timeline' = timelineAfterBug(timeline, allocations, bug.sourceId,
                                    bug.type, details, t2)
    /\ activeBugs' = MapSet(activeBugs, bug.id, bug)
    /\ allocations' = [allocations EXCEPT
                          ![bug.sourceId].metadata = MapSet(@, "bug", bug.id)]
    /\ now' = t2
    /\ UNCHANGED <<buckets, nextId, stats, maxIssued, classifyVars>>

\* the common tail of the three simulate functions: record the bug in the
\* analyzer timeline (clock read again at t2), store it, return it
storeBug(bug, details, t2) ==
    /\ spend(1 + (t2 - now))
    /\ nextBugId' = bugIdAfter(nextBugId)
    /\ timeline' = timelineAfterBug(timeline, allocations, bug.sourceId,
                                    bug.type, details, t2)
    /\ activeBugs' = MapSet(activeBugs, bug.id, bug)
    /\ now' = t2
    /\ UNCHANGED <<allocations, buckets, nextId, stats, maxIssued, classifyVars>>

simulateOverflowResult(sourceId) ==
    IF sourceId \notin DOMAIN allocations
    THEN Failed("Source allocation not found")
    ELSE IF allocations[sourceId].status # "allocated"
    THEN Failed("Source allocation is not active")
    ELSE ReturnedBug(nextBugId)

simulateUseAfterFreeResult(freedId) ==
    IF freedId \notin DOMAIN allocations
    THEN Failed("Allocation not found")
    ELSE IF allocations[freedId].status # "freed"
    THEN Failed("Allocation is not freed yet")
    ELSE ReturnedBug(nextBugId)

simulateTypeConfusionResult(sourceId) ==
    IF sourceId \notin DOMAIN allocations
    THEN Failed("Source allocation not found")
    ELSE IF allocations[sourceId].status # "allocated"
    THEN Failed("Source allocation is not active")
    ELSE ReturnedBug(nextBugId)

simulateOverflow(sourceId, overflowSize, t2) ==
    IF simulateOverflowResult(sourceId).kind = "error"
    THEN UNCHANGED vars
    ELSE storeBug(bugDetails(nextBugId, "overflow", sourceId, overflowSize,
                             "undefined", now,
                             overflowImpact(sourceId, overflowSize)),
                  [overflowSize |-> overflowSize,
                   impactedId |-> findAdjacentAllocations(sourceId).next],
                  t2)

\* variant: the bug id is taken before the allocation is looked up
simulateUseAfterFree_countsFirst(freedId, t2) ==
    IF simulateUseAfterFreeResult(freedId).kind = "error"
    THEN /\ spend(1)
         /\ nextBugId' = bugIdAfter(nextBugId)
         /\ UNCHANGED <<trackerVars, activeBugs, now, maxIssued, classifyVars>>
    ELSE storeBug(bugDetails(nextBugId, "use-after-free", freedId, 0,
                             "undefined", now, uafImpact(freedId)),
                  [impactedId |-> uafImpact(freedId).reusingAllocation.id],
                  t2)

simulateUseAfterFree(freedId, t2) ==
    IF simulateUseAfterFreeResult(freedId).kind = "error"
    THEN UNCHANGED vars
    ELSE storeBug(bugDetails(nextBugId, "use-after-free", freedId, 0,
                             "undefined", now, uafImpact(freedId)),
                  [impactedId |-> uafImpact(freedId).reusingAllocation.id],
                  t2)

simulateTypeConfusion(sourceId, wrongType, t2) ==
    IF simulateTypeConfusionResult(sourceId).kind = "error"
    THEN UNCHANGED vars
    ELSE storeBug(bugDetails(nextBugId, "type-confusion", sourceId, 0,
                             wrongType, now,
                             confusionImpact(sourceId, wrongType)),
                  [wrongType |-> wrongType],
                  t2)

\* variant: the id of a removed bug is handed out again
removeBug_recycles(bugId) ==
    /\ IF bugId \in DOMAIN activeBugs THEN spend(1) ELSE UNCHANGED opCount
    /\ activeBugs' = MapDelete(activeBugs, bugId)
    /\ nextBugId' = IF bugId \in DOMAIN activeBugs THEN bugId ELSE nextBugId
    /\ UNCHANGED <<trackerVars, now, maxIssued, classifyVars>>

removeBug(bugId) ==
    /\ IF bugId \in DOMAIN activeBugs THEN spend(1) ELSE UNCHANGED opCount
    /\ activeBugs' = MapDelete(activeBugs, bugId)
    /\ nextBugId' = nextBugId
    /\ UNCHANGED <<trackerVars, now, maxIssued, classifyVars>>

bugSimulatorReset ==
    /\ spend(1)
    /\ activeBugs' = EmptyMap
    /\ nextBugId' = 1
    /\ UNCHANGED <<trackerVars, now, maxIssued, classifyVars>>

\* ---- read operations of the bug simulator ----

bugTypes ==
    [BUFFER_OVERFLOW |-> "overflow", USE_AFTER_FREE |-> "use-after-free",
     DOUBLE_FREE |-> "double-free", NULL_DEREFERENCE |-> "null-deref",
     TYPE_CONFUSION |-> "type-confusion"]

mitigation(title, description) == [title |-> title, description |-> description]

generateMitigations(bugId) ==
    IF bugId \notin DOMAIN activeBugs THEN Failed("Bug not found")
    ELSE
    LET bug == activeBugs[bugId]
        typed ==
            IF bug.type = bugTypes.BUFFER_OVERFLOW
            THEN <<mitigation("Use bounded operations",
                              "Replace unbounded operations with bounded variants (e.g., strcpy with strncpy)"),
                   mitigation("Add bounds checking",
                              "Add explicit bounds checking before memory operations"),
                   mitigation("Use memory-safe containers",
                              "Replace raw arrays with bounds-checked containers")>>
                 \o (IF bug.impact.severity \in {"critical", "high"}
                     THEN <<mitigation("Add heap layout randomization",
                                       "Randomize allocation order to make exploitation less reliable")>>
                     ELSE <<>>)
            ELSE IF bug.type = bugTypes.USE_AFTER_FREE
            THEN <<mitigation("Nullify pointers after free",
                              "Set pointers to null immediately after freeing memory"),
                   mitigation("Use smart pointers",
                              "Replace raw pointers with smart pointers that handle memory management"),
                   mitigation("Delay reuse of freed memory",
                              "Implement a quarantine zone to delay the reuse of recently freed memory")>>
            ELSE IF bug.type = bugTypes.TYPE_CONFUSION
            THEN <<mitigation("Add runtime type checking",
                              "Implement runtime type checks before type casting"),
                   mitigation("Use type-safe interfaces",
                              "Redesign interfaces to eliminate the need for unsafe casts"),
                   mitigation("Add type metadata validation",
                              "Validate type metadata before operations")>>
            ELSE <<mitigation("Implement comprehensive testing",
                              "Add fuzz testing to identify memory safety issues")>>
    IN  [kind |-> "mitigations",
         list |-> Append(typed,
                         mitigation("Deploy exploit mitigations",
                                    "Enable available exploit mitigations (ASLR, DEP, CFG, etc.)"))]

\* assessment = { overall: 'low', factors: [], difficulties: [] }; exploitScore = 0
newAssessment == [overall |-> "low", factors |-> <<>>, difficulties |-> <<>>, score |-> 0]

\* assessment.factors.push(text); exploitScore += delta
factor(a, text, delta) ==
    [a EXCEPT !.factors = Append(@, text), !.score = @ + delta]

\* assessment.difficulties.push(text); exploitScore -= delta
difficulty(a, text, delta) ==
    [a EXCEPT !.difficulties = Append(@, text), !.score = @ - delta]

\* case this.bugTypes.BUFFER_OVERFLOW
overflowFactors(bug, a) ==
    IF bug.impact.corruptedAllocation # NoRef
    THEN LET target == bug.impact.corruptedAllocation
             a1 == IF includes(target.type, "Function")
                      \/ includes(target.type, "ArrayBuffer")
                   THEN factor(a, "Overflow corrupts a critical object type", 30)
                   ELSE a
         IN  IF bug.overflowSize <= 8
             THEN factor(a1, "Small, controlled overflow size", 20)
             ELSE IF bug.overflowSize <= 64
             THEN factor(a1, "Moderate overflow size", 10)
             ELSE difficulty(a1, "Large overflow may cause instability", 10)
    ELSE difficulty(a, "No identified adjacent object to corrupt", 20)

\* case this.bugTypes.USE_AFTER_FREE
uafFactors(bug, a) ==
    IF bug.impact.reusingAllocation # NoRef
    THEN LET reuser == bug.impact.reusingAllocation
             a1 == IF includes(reuser.type, "ArrayBuffer")
                      \/ includes(reuser.type, "Function")
                   THEN factor(a, "UAF memory reused by a critical object type", 30)
                   ELSE a
         IN  IF bug.source.type = reuser.type
             THEN factor(a1, "Reusing allocation has same type, reducing chance of crashes", 15)
             ELSE difficulty(a1, "Type mismatch between freed and reusing objects may cause instability", 10)
    ELSE difficulty(a, "No identified reusing allocation yet", 15)

\* case this.bugTypes.TYPE_CONFUSION
confusionFactors(bug, a) ==
    LET a1 == IF includes(bug.wrongType, "Function")
                 \/ includes(bug.wrongType, "ArrayBuffer")
              THEN factor(a, "Confusion with a critical object type", 25)
              ELSE a
    IN  IF bug.impact.exampleAllocation # NoRef
        THEN IF bug.source.size - bug.impact.exampleAllocation.size > 0
             THEN factor(a1, "Target type is smaller than original, enabling out-of-bounds access", 20)
             ELSE a1
        ELSE difficulty(a1, "No example of confused type available for comparison", 10)

\* variant: the bonus already applies at 100 allocations
commonFactors_fromHundred(a) ==
    IF stats.totalAllocations >= 100
    THEN factor(a, "Complex heap state provides opportunities for grooming", 10)
    ELSE a

\* if (this.analyzer.stats.totalAllocations > 100) ... exploitScore += 10
commonFactors(a) ==
    IF stats.totalAllocations > 100
    THEN factor(a, "Complex heap state provides opportunities for grooming", 10)
    ELSE a

overallFor(exploitScore) ==
    IF exploitScore >= 40 THEN "high"
    ELSE IF exploitScore >= 20 THEN "medium"
    ELSE "low"

assessExploitability(bugId) ==
    IF bugId \notin DOMAIN activeBugs THEN Failed("Bug not found")
    ELSE LET bug == activeBugs[bugId]
             typed ==
                 IF bug.type = bugTypes.BUFFER_OVERFLOW
                 THEN overflowFactors(bug, newAssessment)
                 ELSE IF bug.type = bugTypes.USE_AFTER_FREE
                 THEN uafFactors(bug, newAssessment)
                 ELSE IF bug.type = bugTypes.TYPE_CONFUSION
                 THEN confusionFactors(bug, newAssessment)
                 ELSE difficulty(newAssessment,
                                 "Unknown bug type, difficult to assess", 20)
             common == commonFactors(typed)
         IN  [common EXCEPT !.overall = overallFor(common.score)]

(***************************************************************************)
(* Strategy generator: GroomingStrategyGenerator.  A plan is its approach,  *)
(* target bucket, target object types and phases; the code field of a      *)
(* phase is text generated from the same arguments as its description.     *)
(***************************************************************************)
phase(type, description) == [type |-> type, description |-> description]

plan(name, bug, bucketSize, approach, targetObjects, phases) ==
    [kind |-> "plan", name |-> name, targetBug |-> bug.id,
     targetBucket |-> bucketSize, approach |-> approach,
     targetObjects |-> targetObjects, phases |-> phases]

\* types[i] = the type of the i-th record of a sequence of record ids
typesOf(ids) == [i \in 1..Len(ids) |-> allocations[ids[i]].type]

\* the types of a sequence in order of first appearance (a Set's order)
RECURSIVE distinct(_)
distinct(types) ==
    IF Len(types) = 0 THEN <<>>
    ELSE LET head == distinct(SubSeq(types, 1, Len(types) - 1))
             last == types[Len(types)]
         IN  IF \E i \in 1..Len(head) : head[i] = last THEN head
             ELSE Append(head, last)

\* findDesirableNeighbors: criticalTypes
neighborCriticalTypes == <<"ArrayBuffer", "Function", "WebAssembly">>

\* variant: freed members of the bucket count as neighbours too
findDesirableNeighbors_anyStatus(source, overflowSize) ==
    LET bucketSize == findBucketForSize(source.size)
        allocationsInBucket == getAllocationsInBucket(bucketSize)
        other(id) == allocations[id].id # source.id
    IN  IF \E i \in 1..Len(allocationsInBucket) : other(allocationsInBucket[i])
        THEN <<allocationsInBucket[
                 Min({i \in 1..Len(allocationsInBucket) :
                         other(allocationsInBucket[i])})]>>
        ELSE <<>>

findDesirableNeighbors(source, overflowSize) ==
    LET bucketSize == findBucketForSize(source.size)
        allocationsInBucket == getAllocationsInBucket(bucketSize)
        other(id) == /\ allocations[id].id # source.id
                     /\ allocations[id].status = "allocated"
        matches(type) ==
            LET hit(id) == includes(allocations[id].type, type) /\ other(id)
            IN  SelectSeq(allocationsInBucket, hit)
        first(seq) == IF Len(seq) > 0 THEN <<seq[1]>> ELSE <<>>
        critical == first(matches(neighborCriticalTypes[1]))
                    \o first(matches(neighborCriticalTypes[2]))
                    \o first(matches(neighborCriticalTypes[3]))
        plain(id) == /\ ~someIncluded(neighborCriticalTypes, allocations[id].type)
                     /\ other(id)
    IN  IF Len(critical) = 0
        THEN first(SelectSeq(allocationsInBucket, plain))
        ELSE critical

preferredTypes == <<"ArrayBuffer", "Uint8Array", "Object", "Array">>

findBestSprayCandidate(targetSize) ==
    LET usedTypes == {allocations[id].type : id \in DOMAIN allocations}
        available == {i \in 1..Len(preferredTypes) : preferredTypes[i] \in usedTypes}
    IN  IF available # {} THEN preferredTypes[Min(available)] ELSE "ArrayBuffer"

\* findUafReplacementCandidates: criticalTypes
replacementCriticalTypes == <<"ArrayBuffer", "Function", "Object">>

\* the first type, in order of first appearance, with the largest count
mostCommonType(ids) ==
    LET types == distinct(typesOf(ids))
        count(type) == Cardinality({i \in 1..Len(ids) : allocations[ids[i]].type = type})
        best == {i \in 1..Len(types) :
                    \A j \in 1..Len(types) : count(types[j]) <= count(types[i])}
    IN  types[Min(best)]

\* variant: only live members of the bucket can replace the freed object
findUafReplacementCandidates_liveOnly(source) ==
    LET bucketSize == findBucketForSize(source.size)
        liveOther(id) == /\ allocations[id].id # source.id
                         /\ allocations[id].status = "allocated"
        allocationsInBucket ==
            SelectSeq(getAllocationsInBucket(bucketSize), liveOther)
    IN  IF Len(allocationsInBucket) > 0 THEN <<allocationsInBucket[1]>> ELSE <<>>

findUafReplacementCandidates(source) ==
    LET bucketSize == findBucketForSize(source.size)
        notSource(id) == allocations[id].id # source.id
        allocationsInBucket ==
            SelectSeq(getAllocationsInBucket(bucketSize), notSource)
        matches(type) ==
            LET hit(id) == includes(allocations[id].type, type)
            IN  SelectSeq(allocationsInBucket, hit)
        first(seq) == IF Len(seq) > 0 THEN <<seq[1]>> ELSE <<>>
        critical == first(matches(replacementCriticalTypes[1]))
                    \o first(matches(replacementCriticalTypes[2]))
                    \o first(matches(replacementCriticalTypes[3]))
        ofCommonType(id) == allocations[id].type = mostCommonType(allocationsInBucket)
    IN  IF Len(critical) = 0 /\ Len(allocationsInBucket) > 0
        THEN first(SelectSeq(allocationsInBucket, ofCommonType))
        ELSE critical

\* variant: only live members of the bucket are listed
findTypesInBucket_liveOnly(bucketSize) ==
    LET live(id) == allocations[id].status = "allocated"
    IN  distinct(typesOf(SelectSeq(getAllocationsInBucket(bucketSize), live)))

findTypesInBucket(bucketSize) ==
    distinct(typesOf(getAllocationsInBucket(bucketSize)))

generateOverflowStrategy(bug) ==
    IF bug.sourceId \notin DOMAIN allocations
    THEN Failed("Source allocation not found")
    ELSE
    LET source == allocations[bug.sourceId]
        bucketSize == findBucketForSize(source.size)
        name == <<"Buffer Overflow Strategy (", source.type, ")">>
        desirableNeighbors == findDesirableNeighbors(source, bug.overflowSize)
        sprayType == findBestSprayCandidate(source.size)
        exploitation ==
            phase("exploitation", <<"Search for and exploit the corrupted object">>)
    IN  IF Len(desirableNeighbors) > 0
        THEN plan(name, bug, bucketSize, "precise_placement",
                  typesOf(desirableNeighbors),
                  <<phase("preparation",
                          <<"Prepare the heap by cleaning up the target bucket">>),
                    phase("allocation",
                          <<"Allocate vulnerable ", source.type, " object">>),
                    phase("allocation",
                          <<"Allocate target ",
                            allocations[desirableNeighbors[1]].type,
                            " object adjacent to vulnerable object">>),
                    phase("trigger",
                          <<"Trigger the overflow to corrupt adjacent object">>),
                    exploitation>>)
        ELSE plan(name, bug, bucketSize, "spray", <<sprayType>>,
                  <<phase("preparation",
                          <<"Prepare the heap by spraying with dummy objects">>),
                    phase("allocation",
                          <<"Allocate vulnerable ", source.type,
                            " object among spray">>),
                    phase("spray",
                          <<"Continue spraying with ", sprayType, " objects">>),
                    phase("trigger",
                          <<"Trigger the overflow to corrupt sprayed objects">>),
                    exploitation>>)

generateUafStrategy(bug) ==
    IF bug.sourceId \notin DOMAIN allocations
    THEN Failed("Source allocation not found")
    ELSE
    LET source == allocations[bug.sourceId]
        bucketSize == findBucketForSize(source.size)
        name == <<"Use-After-Free Strategy (", source.type, ")">>
        replacementCandidates == findUafReplacementCandidates(source)
        bucketTypes == findTypesInBucket(bucketSize)
        sprayType == IF Len(bucketTypes) > 0 THEN bucketTypes[1] ELSE "ArrayBuffer"
        exploitation ==
            phase("exploitation", <<"Exploit the object type confusion">>)
    IN  IF Len(replacementCandidates) > 0
        THEN plan(name, bug, bucketSize, "controlled_reuse",
                  typesOf(replacementCandidates),
                  <<phase("preparation",
                          <<"Prepare the heap by allocating many victim objects">>),
                    phase("free",
                          <<"Free the victim object while keeping a reference">>),
                    phase("allocation",
                          <<"Allocate ",
                            allocations[replacementCandidates[1]].type,
                            " objects to replace freed memory">>),
                    phase("trigger",
                          <<"Access the victim object through dangling pointer">>),
                    exploitation>>)
        ELSE plan(name, bug, bucketSize, "mass_spray", <<sprayType>>,
                  <<phase("preparation",
                          <<"Prepare the heap with victim objects">>),
                    phase("free",
                          <<"Free the victim objects while keeping references">>),
                    phase("spray",
                          <<"Spray many ", sprayType,
                            " objects to increase likelihood of reuse">>),
                    phase("trigger",
                          <<"Access the victim objects through dangling pointers">>),
                    exploitation>>)

\* Array.from(allocations.values()).filter(alloc => alloc.type === bug.wrongType),
\* as the ids in insertion order of the Map
strategyWrongTypeExamples(wrongType) ==
    {id \in DOMAIN allocations : allocations[id].type = wrongType}

\* let sizeDiff = 0; if (wrongTypeExamples.length > 0) sizeDiff = ...
strategySizeDiff(source, wrongType) ==
    LET examples == strategyWrongTypeExamples(wrongType)
    IN  IF examples # {}
        THEN source.size - allocations[Min(examples)].size
        ELSE 0

generateTypeConfusionStrategy(bug) ==
    IF bug.sourceId \notin DOMAIN allocations
    THEN Failed("Source allocation not found")
    ELSE
    LET source == allocations[bug.sourceId]
        name == <<"Type Confusion Strategy (", source.type, " -> ",
                  bug.wrongType, ")">>
        sizeDiff == strategySizeDiff(source, bug.wrongType)
        setup == phase("confusion_setup",
                       <<"Force type confusion between ", source.type, " and ",
                         bug.wrongType>>)
    IN  IF sizeDiff > 0
        THEN plan(name, bug, 0, "size_mismatch_larger", <<>>,
                  <<phase("preparation",
                          <<"Create many ", source.type,
                            " objects for later confusion">>),
                    setup,
                    phase("exploit",
                          <<"Access out-of-bounds memory through confused ",
                            bug.wrongType, " object">>)>>)
        ELSE IF sizeDiff < 0
        THEN plan(name, bug, 0, "size_mismatch_smaller", <<>>,
                  <<phase("preparation",
                          <<"Arrange ", bug.wrongType,
                            " objects in memory with controlled data">>),
                    setup,
                    phase("exploit",
                          <<"Corrupt metadata by writing beyond ", source.type,
                            " boundaries">>)>>)
        ELSE plan(name, bug, 0, "field_misinterpretation", <<>>,
                  <<phase("preparation",
                          <<"Create ", source.type,
                            " objects with specific field values">>),
                    setup,
                    phase("exploit",
                          <<"Exploit misinterpreted fields between types">>)>>)

\* the spray_and_pray template with the bug attached
generateGenericStrategy(bug) ==
    [kind |-> "plan", name |-> <<"Spray and Pray">>, targetBug |-> bug.id,
     targetBucket |-> 0, approach |-> "undefined", targetObjects |-> <<>>,
     phases |-> <<phase("spray", <<"Spray memory with identical objects">>),
                  phase("trigger", <<"Trigger the vulnerability">>),
                  phase("scan", <<"Scan for corrupted objects">>)>>]

\* variant: a bug whose source is gone gets the generic plan
generateStrategyForBug_generic(bugId) ==
    IF bugId \notin DOMAIN activeBugs THEN Failed("Bug not found")
    ELSE LET bug == activeBugs[bugId]
         IN  IF bug.sourceId \notin DOMAIN allocations
             THEN generateGenericStrategy(bug)
             ELSE IF bug.type = "overflow" THEN generateOverflowStrategy(bug)
             ELSE IF bug.type = "use-after-free" THEN generateUafStrategy(bug)
             ELSE generateTypeConfusionStrategy(bug)

generateStrategyForBug(bugId) ==
    IF bugId \notin DOMAIN activeBugs THEN Failed("Bug not found")
    ELSE LET bug == activeBugs[bugId]
         IN  IF bug.type = "overflow" THEN generateOverflowStrategy(bug)
             ELSE IF bug.type = "use-after-free" THEN generateUafStrategy(bug)
             ELSE IF bug.type = "type-confusion"
             THEN generateTypeConfusionStrategy(bug)
             ELSE generateGenericStrategy(bug)

(***************************************************************************)
(* The engine: any caller, any order, one operation at a time.             *)
(***************************************************************************)
\* Date.now() moves on between two operations
tick ==
    /\ spend(1)
    /\ now' = now + 1
    /\ UNCHANGED <<trackerVars, bugVars, maxIssued, classifyVars>>

\* the clock read a second time inside one operation: the same or the next
Later == {now, now + 1}

Next ==
    \/ \E size \in limits.sizes, type \in limits.types :
          recordAllocation(size, type)
    \/ \E id \in Ids : recordDeallocation(id)
    \/ \E id \in Ids : recordBug(id, "double-free")
    \/ reset
    \/ \E id \in Ids, n \in limits.overflowSizes, t2 \in Later :
          simulateOverflow(id, n, t2)
    \/ \E id \in Ids, t2 \in Later : simulateUseAfterFree(id, t2)
    \/ \E id \in Ids, w \in limits.types, t2 \in Later :
          simulateTypeConfusion(id, w, t2)
    \/ \E b \in BugIds : removeBug(b)
    \/ bugSimulatorReset
    \/ tick

Spec == Init /\ [][Next]_vars

(***************************************************************************)
(* The classifier on its own: one call of findBucketForSize per input.     *)
(***************************************************************************)
InitClassify ==
    /\ Constructed
    /\ csize \in ClassifyInputs
    /\ cresult = pendingResult
    /\ limits = engineLimits
    /\ opCount = 0

classifyCall ==
    /\ ~cresult.done
    /\ cresult' = [done |-> TRUE, value |-> findBucketForSize(csize)]
    /\ UNCHANGED <<trackerVars, bugVars, now, maxIssued, csize, limits,
                   opCount>>

SpecClassify == InitClassify /\ [][classifyCall]_vars

(***************************************************************************)
(* The same engine under callers with a narrower repertoire and longer     *)
(* runs.                                                                   *)
(***************************************************************************)
InitScenario ==
    /\ Constructed
    /\ csize = 0
    /\ cresult = pendingResult
    /\ limits = scenarioLimits
    /\ opCount = 0

SpecScenario == InitScenario /\ [][Next]_vars

\* the tracker after n calls recordAllocation(64, "String") at clock reading 1
filled(n) ==
    [allocations |-> [id \in 1..n |-> newAllocation(id, 64, "String", 1)],
     buckets |-> MapSet(EmptyMap, findBucketForSize(64), [i \in 1..n |-> i]),
     timeline |-> [i \in 1..n |-> allocationEvent(i, 1)],
     nextId |-> n + 1,
     stats |-> [totalAllocations |-> n, totalDeallocations |-> 0,
                maxLiveAllocations |-> n, currentLiveAllocations |-> n]]

\* a heap that already holds PreAllocated objects when the callers start
InitComplex ==
    /\ allocations = filled(PreAllocated).allocations
    /\ buckets = filled(PreAllocated).buckets
    /\ timeline = filled(PreAllocated).timeline
    /\ nextId = filled(PreAllocated).nextId
    /\ stats = filled(PreAllocated).stats
    /\ activeBugs = EmptyMap
    /\ nextBugId = 1
    /\ now = 1
    /\ maxIssued = PreAllocated
    /\ csize = 0
    /\ cresult = pendingResult
    /\ limits = complexLimits
    /\ opCount = 0

SpecComplex == InitComplex /\ [][Next]_vars

\* a heap that holds PreFilled objects of one bucket when the callers start
InitStrategy ==
    /\ allocations = filled(PreFilled).allocations
    /\ buckets = filled(PreFilled).buckets
    /\ timeline = filled(PreFilled).timeline
    /\ nextId = filled(PreFilled).nextId
    /\ stats = filled(PreFilled).stats
    /\ activeBugs = EmptyMap
    /\ nextBugId = 1
    /\ now = 1
    /\ maxIssued = PreFilled
    /\ csize = 0
    /\ cresult = pendingResult
    /\ limits = strategyLimits
    /\ opCount = 0

SpecStrategy == InitStrategy /\ [][Next]_vars

(***************************************************************************)
(* The severity rating on its own: one call of assessOverflowSeverity for  *)
(* a source, the target that follows it in the bucket, and an overflow     *)
(* size.  The tracker is the one after recordAllocation(64, "String") and  *)
(* recordAllocation(64, type) at clock reading 1.                          *)
(***************************************************************************)
InitSeverity ==
    /\ \E type \in SeverityTypes :
          /\ allocations = MapSet(filled(1).allocations, 2,
                                  newAllocation(2, 64, type, 1))
          /\ buckets = bucketPush(filled(1).buckets, findBucketForSize(64), 2)
          /\ timeline = Append(filled(1).timeline, allocationEvent(2, 1))
          /\ nextId = idAfter(filled(1).nextId)
          /\ stats = statsAfterAllocation(filled(1).stats)
    /\ activeBugs = EmptyMap
    /\ nextBugId = 1
    /\ now = 1
    /\ maxIssued = 2
    /\ csize \in SeveritySizes
    /\ cresult = pendingResult
    /\ limits = engineLimits
    /\ opCount = 0

severityCall ==
    /\ ~cresult.done
    /\ cresult' = [done |-> TRUE,
                   value |-> assessOverflowSeverity(allocations[1],
                                                    allocations[2], csize)]
    /\ UNCHANGED <<trackerVars, bugVars, now, maxIssued, csize, limits,
                   opCount>>

SpecSeverity == InitSeverity /\ [][severityCall]_vars

InitReuse ==
    /\ Constructed
    /\ csize = 0
    /\ cresult = pendingResult
    /\ limits = reuseLimits
    /\ opCount = 0

SpecReuse == InitReuse /\ [][Next]_vars

(***************************************************************************)
(* The engine with its query operations as steps of the callers.  A query  *)
(* returns the value of the operator of the same name; its step is what    *)
(* its code assigns to the fields of the tracker and of the simulator.     *)
(***************************************************************************)
\* bucket sizes a caller may ask about: those of its objects, and one more
QueryBuckets == {findBucketForSize(size) : size \in limits.sizes} \cup {8}

findAdjacentAllocationsCall(id) ==
    /\ spend(1)
    /\ UNCHANGED <<trackerVars, bugVars, now, maxIssued, classifyVars>>

getActiveBucketsCall ==
    /\ spend(1)
    /\ UNCHANGED <<trackerVars, bugVars, now, maxIssued, classifyVars>>

\* variant: a bucket that is asked about and does not exist is created empty
getAllocationsInBucketCall_creates(bucketSize) ==
    /\ spend(1)
    /\ buckets' = IF bucketSize \in DOMAIN buckets THEN buckets
                  ELSE MapSet(buckets, bucketSize, <<>>)
    /\ UNCHANGED <<allocations, timeline, nextId, stats, bugVars, now,
                   maxIssued, classifyVars>>

\* return this.buckets.get(bucketSize) || []
getAllocationsInBucketCall(bucketSize) ==
    /\ spend(1)
    /\ UNCHANGED <<trackerVars, bugVars, now, maxIssued, classifyVars>>

getActiveAllocationsCall ==
    /\ spend(1)
    /\ UNCHANGED <<trackerVars, bugVars, now, maxIssued, classifyVars>>

generateBucketStatsCall ==
    /\ spend(1)
    /\ UNCHANGED <<trackerVars, bugVars, now, maxIssued, classifyVars>>

generateTypeStatsCall ==
    /\ spend(1)
    /\ UNCHANGED <<trackerVars, bugVars, now, maxIssued, classifyVars>>

assessExploitabilityCall(bugId) ==
    /\ spend(1)
    /\ UNCHANGED <<trackerVars, bugVars, now, maxIssued, classifyVars>>

generateMitigationsCall(bugId) ==
    /\ spend(1)
    /\ UNCHANGED <<trackerVars, bugVars, now, maxIssued, classifyVars>>

generateStrategyForBugCall(bugId) ==
    /\ spend(1)
    /\ UNCHANGED <<trackerVars, bugVars, now, maxIssued, classifyVars>>

InitQueries ==
    /\ Constructed
    /\ csize = 0
    /\ cresult = pendingResult
    /\ limits = queryLimits
    /\ opCount = 0

NextQueries ==
    \/ Next
    \/ \E id \in Ids : findAdjacentAllocationsCall(id)
    \/ getActiveBucketsCall
    \/ \E bucketSize \in QueryBuckets : getAllocationsInBucketCall(bucketSize)
    \/ getActiveAllocationsCall
    \/ generateBucketStatsCall
    \/ generateTypeStatsCall
    \/ \E b \in BugIds : assessExploitabilityCall(b)
    \/ \E b \in BugIds : generateMitigationsCall(b)
    \/ \E b \in BugIds : generateStrategyForBugCall(b)

SpecQueries == InitQueries /\ [][NextQueries]_vars

(***************************************************************************)
(* Properties.                                                             *)
(***************************************************************************)
IsPrefix(a, b) == Len(a) <= Len(b) /\ SubSeq(b, 1, Len(a)) = a

\* the step is a call of the named operation
IsRecordAllocation ==
    \E size \in limits.sizes, type \in limits.types : recordAllocation(size, type)

IsTrackerReset == reset

Last(seq) == seq[Len(seq)]

liveCount == stats.currentLiveAllocations
peakCount == stats.maxLiveAllocations

\* ids of the records of the table that classify into bucket b
MembersOf(b) ==
    {id \in DOMAIN allocations : findBucketForSize(allocations[id].size) = b}

\* C1 (as stated): over any sequence of tracker operations, reset included,
\* every id returned by recordAllocation is larger than every id returned
\* before, so no id is ever handed out twice.
C1_IdsNeverReusedAcrossReset ==
    [][IsRecordAllocation => recordAllocationResult.id > maxIssued]_vars

\* C1 (amended): between two resets of the tracker, every id returned by
\* recordAllocation is larger than the id of every record of the table, is
\* the key and the id of the one record added, and no existing record is
\* replaced.
C1_IdsFreshSinceReset ==
    [][IsRecordAllocation =>
          /\ recordAllocationResult.kind = "id"
          /\ \A i \in DOMAIN allocations : recordAllocationResult.id > i
          /\ DOMAIN allocations' =
                DOMAIN allocations \cup {recordAllocationResult.id}
          /\ allocations'[recordAllocationResult.id].id =
                recordAllocationResult.id
          /\ \A i \in DOMAIN allocations : allocations'[i] = allocations[i]]_vars

C1_Witness ==
    /\ Len(timeline) > 0
    /\ Last(timeline) = allocationEvent(2, now)
    /\ DOMAIN allocations = {1, 2}
    /\ allocations[1].id = 1 /\ allocations[2].id = 2

\* C2: no step other than the tracker's reset removes a record from the
\* allocation table, and a record that is freed stays freed.
C2_StatusOnlyMovesToFreed ==
    [][~IsTrackerReset =>
          \A id \in DOMAIN allocations :
              /\ id \in DOMAIN allocations'
              /\ allocations'[id].status \in {"allocated", "freed"}
              /\ allocations[id].status = "freed"
                    => allocations'[id].status = "freed"]_vars

C2_Witness ==
    \E id \in DOMAIN allocations :
        /\ allocations[id].status = "freed"
        /\ stats.totalDeallocations = 2
        /\ Cardinality(DOMAIN allocations) = 1

\* C3: every bucket's sequence lists exactly the records of the table whose
\* size classifies into it, once each, in ascending id order, freed records
\* included; so every record is in exactly one bucket.
C3_BucketsPartitionTable ==
    /\ \A id \in DOMAIN allocations :
          findBucketForSize(allocations[id].size) \in DOMAIN buckets
    /\ \A b \in DOMAIN buckets :
          /\ Len(buckets[b]) = Cardinality(MembersOf(b))
          /\ {buckets[b][i] : i \in 1..Len(buckets[b])} = MembersOf(b)
          /\ \A i, j \in 1..Len(buckets[b]) :
                i < j => buckets[b][i] < buckets[b][j]

C3_Witness ==
    /\ DOMAIN buckets = {64, 112}
    /\ buckets[64] = <<1, 3>>
    /\ buckets[112] = <<2>>
    /\ allocations[1].status = "freed"
    /\ allocations[3].status = "allocated"

\* C4: recordDeallocation of an id that is not in the table warns and leaves
\* the table, the buckets, the timeline, the id counter and the counters as
\* they were.
C4_UnknownDeallocationChangesNothing ==
    [][\A id \in Ids :
          (id \notin DOMAIN allocations /\ recordDeallocation(id))
             => /\ recordDeallocationResult(id).kind = "warn"
                /\ UNCHANGED <<allocations, buckets, timeline, nextId, stats>>]_vars

C4_Witness ==
    /\ recordDeallocationResult(3) = Warned("Tried to deallocate unknown ID")
    /\ DOMAIN allocations = {1, 2}
    /\ Len(timeline) = 3

\* C5: recordDeallocation of a record that is already freed is not refused
\* (it can always change the state again), and when it is called it returns
\* without a warning, sets the freed timestamp to the current clock reading,
\* appends a second deallocation event, raises total deallocations by one
\* and lowers the live count by one, and the record stays freed.
SecondDeallocation(id) ==
    /\ id \in DOMAIN allocations
    /\ allocations[id].status = "freed"
    /\ recordDeallocation(id)

C5_SecondDeallocationCountsAgain ==
    /\ [](\A id \in DOMAIN allocations :
            (allocations[id].status = "freed" /\ opCount < limits.ops)
               => ENABLED (SecondDeallocation(id) /\ timeline' # timeline))
    /\ [][\A id \in Ids :
             SecondDeallocation(id)
                => /\ recordDeallocationResult(id) = Void
                   /\ allocations'[id].status = "freed"
                   /\ allocations'[id].freedAt = now
                   /\ timeline' = Append(timeline, deallocationEvent(id, now))
                   /\ stats'.totalDeallocations = stats.totalDeallocations + 1
                   /\ stats'.currentLiveAllocations = liveCount - 1]_vars

C5_Witness ==
    /\ DOMAIN allocations = {1}
    /\ allocations[1].status = "freed"
    /\ Len(timeline) = 3
    /\ timeline[2] = deallocationEvent(1, 1)
    /\ timeline[3] = deallocationEvent(1, 2)
    /\ allocations[1].freedAt = 2
    /\ stats.totalDeallocations = 2
    /\ liveCount = -1

\* C6: recordAllocation adds one to total allocations and to the live count
\* and sets the peak to the larger of the old peak and the new live count;
\* the peak is never below the live count; and no step other than the
\* tracker's reset lowers the peak.
C6_PeakIsRunningMaximum ==
    /\ [](peakCount >= liveCount)
    /\ [][/\ IsRecordAllocation =>
                /\ stats'.totalAllocations = stats.totalAllocations + 1
                /\ stats'.currentLiveAllocations = liveCount + 1
                /\ stats'.maxLiveAllocations = Max2(peakCount, liveCount + 1)
          /\ ~IsTrackerReset => stats'.maxLiveAllocations >= peakCount]_vars

C6_Witness ==
    /\ Len(timeline) > 0
    /\ Last(timeline).type = "allocation"
    /\ stats.totalAllocations = 3
    /\ stats.totalDeallocations = 1
    /\ peakCount = 2
    /\ liveCount = 2

\* the step is a successful call of the named operation
DidRecordDeallocation(id) == id \in DOMAIN allocations /\ recordDeallocation(id)
DidRecordBug(id) == id \in DOMAIN allocations /\ recordBug(id, "double-free")
DidSimulateOverflow(id) ==
    /\ simulateOverflowResult(id).kind = "bug"
    /\ \E n \in limits.overflowSizes, t2 \in Later : simulateOverflow(id, n, t2)
DidSimulateUseAfterFree(id) ==
    /\ simulateUseAfterFreeResult(id).kind = "bug"
    /\ \E t2 \in Later : simulateUseAfterFree(id, t2)
DidSimulateTypeConfusion(id) ==
    /\ simulateTypeConfusionResult(id).kind = "bug"
    /\ \E w \in limits.types, t2 \in Later : simulateTypeConfusion(id, w, t2)

\* the step appends exactly one event, of the given shape
AppendsOne(type, field, id) ==
    /\ Len(timeline') = Len(timeline) + 1
    /\ IsPrefix(timeline, timeline')
    /\ Last(timeline').type = type
    /\ Last(timeline')[field] = id

\* C7: every step other than the tracker's reset keeps the timeline as a
\* prefix of the new timeline; a successful recordAllocation,
\* recordDeallocation or recordBug appends exactly one event of its own
\* kind, and a successful simulateOverflow, simulateUseAfterFree or
\* simulateTypeConfusion appends exactly one bug event of its bug type.
C7_TimelineAppendOnly ==
    [][/\ ~IsTrackerReset => IsPrefix(timeline, timeline')
       /\ IsRecordAllocation => AppendsOne("allocation", "allocation", nextId)
       /\ \A id \in Ids :
             /\ DidRecordDeallocation(id)
                   => AppendsOne("deallocation", "allocation", id)
             /\ DidRecordBug(id)
                   => AppendsOne("bug", "sourceId", id)
             /\ DidSimulateOverflow(id)
                   => /\ AppendsOne("bug", "sourceId", id)
                      /\ Last(timeline').bugType = "overflow"
             /\ DidSimulateUseAfterFree(id)
                   => /\ AppendsOne("bug", "sourceId", id)
                      /\ Last(timeline').bugType = "use-after-free"
             /\ DidSimulateTypeConfusion(id)
                   => /\ AppendsOne("bug", "sourceId", id)
                      /\ Last(timeline').bugType = "type-confusion"]_vars

C7_Witness ==
    /\ DOMAIN activeBugs = {1}
    /\ Len(timeline) = 3
    /\ timeline[1].type = "allocation"
    /\ timeline[2].type = "deallocation"
    /\ timeline[3].type = "bug"
    /\ timeline[3].bugType = "use-after-free"

\* C8: recordBug with an unknown source id changes neither the tracker nor
\* the bug simulator; with a known one it appends one bug event and leaves
\* the table, the buckets, the counters, the id counter and the bug table
\* as they were.
C8_RecordBugOnlyLogs ==
    [][\A id \in Ids :
          recordBug(id, "double-free")
             => IF id \notin DOMAIN allocations
                THEN UNCHANGED <<allocations, buckets, timeline, nextId, stats,
                                 activeBugs, nextBugId>>
                ELSE /\ timeline' =
                           Append(timeline,
                                  bugEvent(id, "double-free", EmptyMap, now))
                     /\ UNCHANGED <<allocations, buckets, nextId, stats,
                                    activeBugs, nextBugId>>]_vars

C8_Witness ==
    /\ Len(timeline) = 3
    /\ timeline[3].type = "bug"
    /\ timeline[3].bugType = "double-free"
    /\ activeBugs = EmptyMap
    /\ nextBugId = 1
    /\ allocations[1].status = "freed"

\* position of id in a sequence of ids
PositionIn(seq, id) == CHOOSE i \in 1..Len(seq) : seq[i] = id

\* C9: for every record, findAdjacentAllocations gives the ids right before
\* and right after the record's position in its bucket's sequence, allocated
\* or freed, and none at either end; and within a bucket b follows a exactly
\* when a precedes b.
C9_AdjacencyIsPositional ==
    /\ \A id \in DOMAIN allocations :
          LET seq == buckets[findBucketForSize(allocations[id].size)]
              i == PositionIn(seq, id)
              adjacent == findAdjacentAllocations(id)
          IN  /\ seq[i] = id
              /\ adjacent.prev = (IF i = 1 THEN 0 ELSE seq[i - 1])
              /\ adjacent.next = (IF i = Len(seq) THEN 0 ELSE seq[i + 1])
    /\ \A a, b \in DOMAIN allocations :
          findAdjacentAllocations(a).next = b
             <=> findAdjacentAllocations(b).prev = a

C9_Witness ==
    /\ DOMAIN allocations = {1, 2, 3}
    /\ allocations[2].status = "freed"
    /\ allocations[1].status = "allocated"
    /\ allocations[3].status = "allocated"
    /\ findAdjacentAllocations(1) = [prev |-> 0, next |-> 2]
    /\ findAdjacentAllocations(3) = [prev |-> 2, next |-> 0]
    /\ findAdjacentAllocations(2) = [prev |-> 1, next |-> 3]

\* the size classes of the specification's table
SizeClasses ==
    {8, 16, 32, 48, 64, 80, 96, 112, 128, 144, 160, 192, 224, 256, 320, 384,
     448, 512, 576, 640, 704, 768, 832, 896, 960, 1024}

\* the least multiple of m that is not below size
RoundedUp(size, m) ==
    CHOOSE r \in size..(size + m - 1) : r % m = 0

\* the classifier as the specification words it
Classified(size) ==
    IF size <= 0 THEN 0
    ELSE IF size <= 1024
         THEN CHOOSE b \in SizeClasses :
                  b >= size /\ \A c \in SizeClasses : c >= size => b <= c
    ELSE IF size <= 4096 THEN RoundedUp(size, 128)
    ELSE RoundedUp(size, 4096)

\* C10: findBucketForSize returns, for every integer size, 0 when the size
\* is not positive, the least of the 26 size classes that is not below the
\* size up to 1024, the size rounded up to a multiple of 128 up to 4096 and
\* to a multiple of 4096 above.
C10_ClassifierMatchesReference ==
    /\ Len(bucketSizes) = 26
    /\ Cardinality(SizeClasses) = 26
    /\ cresult.done => cresult.value = Classified(csize)
    /\ (cresult.done /\ csize = 1024) => cresult.value = 1024
    /\ (cresult.done /\ csize = 1025) => cresult.value = 1152
    /\ (cresult.done /\ csize = 4096) => cresult.value = 4096
    /\ (cresult.done /\ csize = 4097) => cresult.value = 8192

C10_Witness ==
    /\ cresult.done
    /\ csize = 4097
    /\ cresult.value = 8192

\* C11: a reset of the tracker, after whatever operations, leaves the
\* allocation table, the buckets and the timeline empty and the four
\* counters at 0, generateBucketStats and generateTypeStats then return
\* empty objects, the next recordAllocation would return id 1, and a
\* recordAllocation made on the emptied tracker creates record 1.
C11_ResetReinitialisesTracker ==
    [][/\ IsTrackerReset =>
             /\ allocations' = EmptyMap
             /\ buckets' = EmptyMap
             /\ timeline' = <<>>
             /\ stats'.totalAllocations = 0
             /\ stats'.totalDeallocations = 0
             /\ stats'.maxLiveAllocations = 0
             /\ stats'.currentLiveAllocations = 0
             /\ DOMAIN generateBucketStats' = {}
             /\ DOMAIN generateTypeStats' = {}
             /\ recordAllocationResult' = Returned(1)
       /\ (IsRecordAllocation /\ timeline = <<>>) =>
             /\ recordAllocationResult = Returned(1)
             /\ DOMAIN allocations' = {1}
             /\ allocations'[1].id = 1]_vars

C11_Witness ==
    /\ maxIssued = 2
    /\ DOMAIN activeBugs = {1}
    /\ allocations = EmptyMap
    /\ buckets = EmptyMap
    /\ timeline = <<>>
    /\ stats = initialStats
    /\ generateBucketStats = EmptyMap
    /\ generateTypeStats = EmptyMap
    /\ nextId = 1

\* the step is a call of the named simulation that returns an error
FailedSimulateOverflow(id) ==
    /\ simulateOverflowResult(id).kind = "error"
    /\ \E n \in limits.overflowSizes, t2 \in Later : simulateOverflow(id, n, t2)
FailedSimulateUseAfterFree(id) ==
    /\ simulateUseAfterFreeResult(id).kind = "error"
    /\ \E t2 \in Later : simulateUseAfterFree(id, t2)
FailedSimulateTypeConfusion(id) ==
    /\ simulateTypeConfusionResult(id).kind = "error"
    /\ \E w \in limits.types, t2 \in Later : simulateTypeConfusion(id, w, t2)

IsFreed(id) == id \in DOMAIN allocations /\ allocations[id].status = "freed"
IsAllocated(id) ==
    id \in DOMAIN allocations /\ allocations[id].status = "allocated"

\* C12: simulateOverflow and simulateTypeConfusion return an error exactly
\* when the source id is unknown or the source is freed, simulateUseAfterFree
\* exactly when the id is unknown or the allocation is still allocated; and
\* a call that returns an error stores no bug, leaves the bug id counter
\* where it was and changes nothing in the tracker, the timeline included.
C12_FailedSimulationChangesNothing ==
    /\ [](\A id \in Ids :
            /\ simulateOverflowResult(id).kind = "error" <=> ~IsAllocated(id)
            /\ simulateTypeConfusionResult(id).kind = "error" <=> ~IsAllocated(id)
            /\ simulateUseAfterFreeResult(id).kind = "error" <=> ~IsFreed(id)
            /\ simulateOverflowResult(id).kind \in {"error", "bug"}
            /\ simulateTypeConfusionResult(id).kind \in {"error", "bug"}
            /\ simulateUseAfterFreeResult(id).kind \in {"error", "bug"})
    /\ [][\A id \in Ids :
             (\/ FailedSimulateOverflow(id)
              \/ FailedSimulateUseAfterFree(id)
              \/ FailedSimulateTypeConfusion(id))
                => UNCHANGED <<activeBugs, nextBugId, allocations, buckets,
                               timeline, nextId, stats>>]_vars

C12_Witness ==
    /\ DOMAIN allocations = {1, 2}
    /\ simulateOverflowResult(1) = Failed("Source allocation is not active")
    /\ simulateTypeConfusionResult(1) = Failed("Source allocation is not active")
    /\ simulateUseAfterFreeResult(2) = Failed("Allocation is not freed yet")
    /\ simulateOverflowResult(3) = Failed("Source allocation not found")
    /\ simulateUseAfterFreeResult(3) = Failed("Allocation not found")
    /\ simulateTypeConfusionResult(3) = Failed("Source allocation not found")
    /\ activeBugs = EmptyMap
    /\ nextBugId = 1
    /\ Len(timeline) = 3

\* the record right after id in its bucket's sequence; 0 when id is last
StructurallyNext(id) ==
    LET seq == buckets[findBucketForSize(allocations[id].size)]
        i == PositionIn(seq, id)
    IN  IF i < Len(seq) THEN seq[i + 1] ELSE 0

\* C13: a successful simulateOverflow stores a bug whose corrupted target is
\* the record right after the source in the source's bucket when that
\* record exists and is allocated, with the severity assessOverflowSeverity
\* gives for it; when the source is last in its bucket or the record after
\* it is freed, the bug has no corrupted target and severity low, whatever
\* records follow further along.
C13_OverflowHitsStructuralNeighbour ==
    [][\A id \in Ids :
          DidSimulateOverflow(id) =>
             LET nxt == StructurallyNext(id)
                 bug == activeBugs'[nextBugId]
             IN  /\ DOMAIN activeBugs' = DOMAIN activeBugs \cup {nextBugId}
                 /\ bug.sourceId = id
                 /\ bug.type = "overflow"
                 /\ IF nxt # 0 /\ allocations[nxt].status = "allocated"
                    THEN /\ bug.impact.corruptedAllocation.id = nxt
                         /\ bug.impact.corruptedAllocation.type =
                               allocations[nxt].type
                         /\ bug.impact.severity =
                               assessOverflowSeverity(allocations[id],
                                                      allocations[nxt],
                                                      bug.overflowSize)
                    ELSE /\ bug.impact.corruptedAllocation = NoRef
                         /\ bug.impact.severity = "low"]_vars

C13_Witness ==
    /\ DOMAIN allocations = {1, 2, 3}
    /\ buckets[64] = <<1, 2, 3>>
    /\ allocations[1].status = "allocated"
    /\ allocations[2].status = "freed"
    /\ allocations[3].status = "allocated"
    /\ allocations[3].type = "WebAssembly"
    /\ DOMAIN activeBugs = {1}
    /\ activeBugs[1].type = "overflow"
    /\ activeBugs[1].sourceId = 1
    /\ activeBugs[1].impact.corruptedAllocation = NoRef
    /\ activeBugs[1].impact.severity = "low"
    /\ Last(timeline).type = "bug"

\* the live records of x's bucket whose allocation event follows a
\* deallocation event of x in the timeline
AllocatedAfterFree(x) ==
    {y \in MembersOf(findBucketForSize(allocations[x].size)) :
        /\ allocations[y].status = "allocated"
        /\ \E i, j \in 1..Len(timeline) :
              /\ i < j
              /\ timeline[i] = deallocationEvent(x, timeline[i].timestamp)
              /\ timeline[j] = allocationEvent(y, timeline[j].timestamp)}

\* the live records of x's bucket created at a later clock reading than
\* the one at which x was last freed
CreatedAfterFreeTime(x) ==
    {y \in MembersOf(findBucketForSize(allocations[x].size)) :
        /\ allocations[y].status = "allocated"
        /\ allocations[y].timestamp > allocations[x].freedAt}

Severities == {"low", "medium", "high", "critical"}

\* C15 (as stated): every stored bug record carries a severity that is one
\* of low, medium, high, critical.
C15_SeverityIsOneOfFour ==
    \A b \in DOMAIN activeBugs : activeBugs[b].impact.severity \in Severities

\* C15 (amended): every stored overflow or use-after-free bug carries a
\* severity that is one of low, medium, high, critical; a type-confusion
\* bug carries medium or high when an allocated example of the wrong type
\* was found and the fifth value unknown exactly when none was.
C15_SeverityIsOneOfFourOrUnknown ==
    \A b \in DOMAIN activeBugs :
        LET bug == activeBugs[b]
        IN  /\ bug.type \in {"overflow", "use-after-free", "type-confusion"}
            /\ bug.type \in {"overflow", "use-after-free"}
                  => bug.impact.severity \in Severities
            /\ bug.type = "type-confusion"
                  => /\ bug.impact.severity \in {"medium", "high", "unknown"}
                     /\ bug.impact.severity = "unknown"
                           <=> bug.impact.exampleAllocation = NoRef

C15_Witness ==
    /\ DOMAIN activeBugs = {1, 2, 3}
    /\ activeBugs[1].type = "type-confusion"
    /\ activeBugs[1].impact.severity = "unknown"
    /\ activeBugs[2].type = "overflow"
    /\ activeBugs[2].impact.severity = "low"
    /\ activeBugs[3].type = "type-confusion"
    /\ activeBugs[3].impact.severity = "medium"

\* C16: a successful simulateTypeConfusion(sourceId, wrongType) stores a bug
\* whose example is a record of type wrongType that is allocated at that
\* moment, with severity high when the source is larger than the example
\* and medium when it is smaller or of equal size; when no allocated
\* record of wrongType exists, freed ones notwithstanding, the bug has no
\* example and severity unknown.
C16_ConfusionComparesWithLiveExample ==
    [][\A id \in Ids, w \in limits.types, t2 \in Later :
          (simulateTypeConfusionResult(id).kind = "bug"
              /\ simulateTypeConfusion(id, w, t2)) =>
             LET bug == activeBugs'[nextBugId]
                 example == bug.impact.exampleAllocation
                 liveOfType == {y \in DOMAIN allocations :
                                   /\ allocations[y].type = w
                                   /\ allocations[y].status = "allocated"}
             IN  /\ bug.type = "type-confusion"
                 /\ bug.sourceId = id
                 /\ bug.wrongType = w
                 /\ IF liveOfType = {}
                    THEN /\ example = NoRef
                         /\ bug.impact.severity = "unknown"
                    ELSE /\ example.id \in liveOfType
                         /\ example.size = allocations[example.id].size
                         /\ allocations[id].size > example.size
                               => bug.impact.severity = "high"
                         /\ allocations[id].size <= example.size
                               => bug.impact.severity = "medium"]_vars

C16_Witness ==
    /\ DOMAIN allocations = {1, 2}
    /\ allocations[1].status = "allocated"
    /\ allocations[2].type = "String"
    /\ allocations[2].status = "freed"
    /\ DOMAIN activeBugs = {1}
    /\ activeBugs[1].type = "type-confusion"
    /\ activeBugs[1].sourceId = 1
    /\ activeBugs[1].wrongType = "String"
    /\ activeBugs[1].impact.exampleAllocation = NoRef
    /\ activeBugs[1].impact.severity = "unknown"
    /\ Last(timeline).type = "bug"

\* C17: a successful simulateOverflow, simulateUseAfterFree or
\* simulateTypeConfusion leaves the allocation table (every record's status,
\* size, type and freed timestamp), the buckets, the id counter and the four
\* counters as they were; it adds exactly one bug record, under the next
\* bug id, leaves the other bug records alone and appends exactly one bug
\* event to the timeline.
C17_SimulationNeverMutatesAllocations ==
    [][\A id \in Ids :
          (\/ DidSimulateOverflow(id)
           \/ DidSimulateUseAfterFree(id)
           \/ DidSimulateTypeConfusion(id)) =>
             /\ allocations' = allocations
             /\ buckets' = buckets
             /\ stats' = stats
             /\ nextId' = nextId
             /\ nextBugId \notin DOMAIN activeBugs
             /\ DOMAIN activeBugs' = DOMAIN activeBugs \cup {nextBugId}
             /\ \A b \in DOMAIN activeBugs : activeBugs'[b] = activeBugs[b]
             /\ activeBugs'[nextBugId].sourceId = id
             /\ AppendsOne("bug", "sourceId", id)]_vars

C17_Witness ==
    /\ DOMAIN allocations = {1, 2}
    /\ allocations[1].status = "allocated"
    /\ allocations[2].status = "allocated"
    /\ stats.totalAllocations = 2
    /\ liveCount = 2
    /\ DOMAIN activeBugs = {1, 2}
    /\ activeBugs[1].type = "overflow"
    /\ activeBugs[1].impact.corruptedAllocation.id = 2
    /\ activeBugs[2].type = "type-confusion"
    /\ Len(timeline) = 4
    /\ timeline[3].type = "bug"
    /\ timeline[4].type = "bug"

\* the step is a call of one of the tracker's four mutating operations
IsTrackerOperation ==
    \/ IsRecordAllocation
    \/ IsTrackerReset
    \/ \E id \in Ids : recordDeallocation(id)
    \/ \E id \in Ids : recordBug(id, "double-free")

\* the step is a successful simulation
DidSimulate ==
    \E id \in Ids :
        \/ DidSimulateOverflow(id)
        \/ DidSimulateUseAfterFree(id)
        \/ DidSimulateTypeConfusion(id)

\* C18: every stored bug has an id below the bug id counter; a successful
\* simulation stores its bug under the counter's value, which is above the
\* id of every stored bug, and moves the counter up by one without touching
\* the allocation id counter; no step other than the bug simulator's reset
\* lowers the counter, removeBug included, so no bug id is handed out twice
\* between two resets; removeBug of an absent id changes nothing; and the
\* tracker's operations, its reset included, change neither the counter
\* nor the bug table.
C18_BugIdsNeverReusedBetweenResets ==
    /\ [](\A b \in DOMAIN activeBugs : b < nextBugId /\ activeBugs[b].id = b)
    /\ [][/\ DidSimulate =>
                /\ nextBugId' = nextBugId + 1
                /\ DOMAIN activeBugs' \ DOMAIN activeBugs = {nextBugId}
                /\ activeBugs'[nextBugId].id = nextBugId
                /\ nextId' = nextId
          /\ ~bugSimulatorReset => nextBugId' >= nextBugId
          /\ \A b \in BugIds :
                removeBug(b) =>
                   /\ nextBugId' = nextBugId
                   /\ DOMAIN activeBugs' = DOMAIN activeBugs \ {b}
                   /\ b \notin DOMAIN activeBugs => UNCHANGED vars
          /\ IsTrackerOperation =>
                /\ nextBugId' = nextBugId
                /\ activeBugs' = activeBugs]_vars

C18_Witness ==
    /\ DOMAIN allocations = {1}
    /\ nextId = 2
    /\ DOMAIN activeBugs = {2}
    /\ activeBugs[2].id = 2
    /\ nextBugId = 3
    /\ Len(timeline) = 3

\* the critical set of the specification, matched by substring
CriticalSet == {"Function", "ArrayBuffer", "WebAssembly", "VTable"}
IsCritical(type) == \E c \in CriticalSet : includes(type, c)

\* the bonus common to all bug types
ComplexityBonus == IF stats.totalAllocations > 100 THEN 10 ELSE 0

\* the score of an overflow bug as a sum of independent terms
OverflowScoreAsSum(bug) ==
    LET target == bug.impact.corruptedAllocation
        hasTarget == target # NoRef
    IN  (IF hasTarget /\ IsCritical(target.type) THEN 30 ELSE 0)
        + (IF bug.overflowSize <= 8 THEN 20
           ELSE IF bug.overflowSize <= 64 THEN 10 ELSE 0)
        + (IF bug.overflowSize > 64 /\ ~hasTarget THEN -10 ELSE 0)
        + (IF ~hasTarget THEN -20 ELSE 0)

\* C19: for every stored overflow bug, assessExploitability's score is
\* +30 if the corrupted target's type is in the critical set, +20 if the
\* overflow size is at most 8 and else +10 if it is at most 64, -10 if it
\* is above 64 and there is no target, -20 if there is no target, plus the
\* heap-complexity bonus.
C19_OverflowScoreIsSumOfFactors ==
    \A b \in DOMAIN activeBugs :
        activeBugs[b].type = "overflow" =>
            assessExploitability(b).score =
                OverflowScoreAsSum(activeBugs[b]) + ComplexityBonus

\* the score of a use-after-free bug as a sum of independent terms
UafScoreAsSum(bug) ==
    LET reuser == bug.impact.reusingAllocation
        hasReuser == reuser # NoRef
    IN  (IF hasReuser /\ IsCritical(reuser.type) THEN 30 ELSE 0)
        + (IF hasReuser
           THEN (IF reuser.type = bug.source.type THEN 15 ELSE -10)
           ELSE 0)
        + (IF ~hasReuser THEN -15 ELSE 0)

\* C20: for every stored use-after-free bug, assessExploitability's score
\* is +30 if the reuser's type is in the critical set, +15 if the reuser's
\* type equals the freed object's type and -10 otherwise, -15 if there is
\* no reuser, plus the heap-complexity bonus.
C20_UafScoreIsSumOfFactors ==
    \A b \in DOMAIN activeBugs :
        activeBugs[b].type = "use-after-free" =>
            assessExploitability(b).score =
                UafScoreAsSum(activeBugs[b]) + ComplexityBonus

\* the score of a stored bug before the heap-complexity bonus
TypedScore(bug) ==
    IF bug.type = "overflow" THEN overflowFactors(bug, newAssessment).score
    ELSE IF bug.type = "use-after-free" THEN uafFactors(bug, newAssessment).score
    ELSE confusionFactors(bug, newAssessment).score

\* the tier of a score
Tier(score) ==
    IF score >= 40 THEN "high"
    ELSE IF 20 <= score /\ score < 40 THEN "medium"
    ELSE "low"

HasFactor(a, text) == \E i \in 1..Len(a.factors) : a.factors[i] = text

\* C21: for a stored bug, assessExploitability's score is the bug's own
\* score plus 10 exactly when the tracker's total allocations counter is
\* above 100 at that moment, and the overall tier is high from 40, medium
\* from 20 and low below; for a bug id that is not stored the result is an
\* error and carries no assessment.
C21_BonusAboveHundredAndTiers ==
    \A b \in 1..(nextBugId + 1) :
        LET a == assessExploitability(b)
        IN  IF b \in DOMAIN activeBugs
            THEN /\ a.score = TypedScore(activeBugs[b])
                                + (IF stats.totalAllocations > 100 THEN 10 ELSE 0)
                 /\ HasFactor(a, "Complex heap state provides opportunities for grooming")
                       <=> stats.totalAllocations > 100
                 /\ a.overall = Tier(a.score)
            ELSE /\ a = Failed("Bug not found")
                 /\ DOMAIN a = {"kind", "error"}

C21_Witness ==
    /\ stats.totalAllocations = 101
    /\ DOMAIN activeBugs = {1}
    /\ activeBugs[1].type = "overflow"
    /\ assessExploitability(1).score = 50
    /\ assessExploitability(1).overall = "high"
    /\ TypedScore(activeBugs[1]) = 40
    /\ assessExploitability(2) = Failed("Bug not found")

\* the kinds of the phases of a plan, in order
PhaseKinds(strategy) == [i \in 1..Len(strategy.phases) |-> strategy.phases[i].type]

SourceExists(bugId) == activeBugs[bugId].sourceId \in DOMAIN allocations

(***************************************************************************)
(* C22: generateStrategyForBug returns an error result for a bug id that   *)
(* is not in the bug table and for a bug whose source allocation id is no  *)
(* longer in the allocation table; for every other bug it returns a plan.  *)
(***************************************************************************)
C22_StrategyErrorsOnMissingBugOrSource ==
    \A b \in 1..(nextBugId + 1) :
        LET s == generateStrategyForBug(b)
        IN  IF b \notin DOMAIN activeBugs
            THEN s = Failed("Bug not found")
            ELSE IF ~SourceExists(b)
            THEN s = Failed("Source allocation not found")
            ELSE s.kind = "plan" /\ s.targetBug = b /\ Len(s.phases) > 0

C22_Witness ==
    /\ DOMAIN activeBugs = {1}
    /\ allocations = EmptyMap
    /\ stats.totalAllocations = 0
    /\ generateStrategyForBug(1) = Failed("Source allocation not found")
    /\ generateStrategyForBug(2) = Failed("Bug not found")

\* the records of the bucket of a record, as ids
BucketOf(source) == getAllocationsInBucket(findBucketForSize(source.size))

HasLiveNeighbour(source) ==
    \E i \in 1..Len(BucketOf(source)) :
        /\ BucketOf(source)[i] # source.id
        /\ IsAllocated(BucketOf(source)[i])

HasOtherMember(source) ==
    \E i \in 1..Len(BucketOf(source)) : BucketOf(source)[i] # source.id

(***************************************************************************)
(* C23: for every overflow bug whose source still exists the plan has      *)
(* exactly five phases: precise_placement with kinds preparation,          *)
(* allocation, allocation, trigger, exploitation when the source's bucket  *)
(* holds an allocated member other than the source, and spray with kinds   *)
(* preparation, allocation, spray, trigger, exploitation otherwise.        *)
(***************************************************************************)
C23_OverflowPlanHasFivePhases ==
    \A b \in DOMAIN activeBugs :
        (activeBugs[b].type = "overflow" /\ SourceExists(b)) =>
            LET s == generateStrategyForBug(b)
                source == allocations[activeBugs[b].sourceId]
            IN  /\ s.kind = "plan"
                /\ Len(s.phases) = 5
                /\ IF HasLiveNeighbour(source)
                   THEN /\ s.approach = "precise_placement"
                        /\ PhaseKinds(s) = <<"preparation", "allocation",
                                             "allocation", "trigger",
                                             "exploitation">>
                   ELSE /\ s.approach = "spray"
                        /\ PhaseKinds(s) = <<"preparation", "allocation",
                                             "spray", "trigger",
                                             "exploitation">>

\* a spray plan although the bucket has a second, freed, member
C23_Witness ==
    /\ DOMAIN activeBugs = {1}
    /\ activeBugs[1].type = "overflow"
    /\ SourceExists(1)
    /\ HasOtherMember(allocations[activeBugs[1].sourceId])
    /\ ~HasLiveNeighbour(allocations[activeBugs[1].sourceId])
    /\ generateStrategyForBug(1).approach = "spray"
    /\ Len(generateStrategyForBug(1).phases) = 5

\* the members of the bucket of a record other than the record itself
OthersInBucket(source) ==
    {BucketOf(source)[i] : i \in 1..Len(BucketOf(source))} \ {source.id}

CountOfType(ids, type) == Cardinality({id \in ids : allocations[id].type = type})

IsReplacementCritical(type) == someIncluded(replacementCriticalTypes, type)

ApproachFor(sizeDiff) ==
    IF sizeDiff > 0 THEN "size_mismatch_larger"
    ELSE IF sizeDiff < 0 THEN "size_mismatch_smaller"
    ELSE "field_misinterpretation"

LiveOfType(type) ==
    {id \in DOMAIN allocations : IsAllocated(id) /\ allocations[id].type = type}

(***************************************************************************)
(* C25: for a type-confusion bug the plan has three phases and its         *)
(* approach follows sizeDiff = source.size - example.size for an allocated *)
(* record of wrongType, with sizeDiff = 0 when no allocated record of      *)
(* wrongType exists; freed records of wrongType have no influence.         *)
(***************************************************************************)
C25_ConfusionApproachFromLiveExample ==
    \A b \in DOMAIN activeBugs :
        (activeBugs[b].type = "type-confusion" /\ SourceExists(b)) =>
            LET s == generateStrategyForBug(b)
                source == allocations[activeBugs[b].sourceId]
                examples == LiveOfType(activeBugs[b].wrongType)
            IN  /\ s.kind = "plan"
                /\ Len(s.phases) = 3
                /\ IF examples = {}
                   THEN s.approach = ApproachFor(0)
                   ELSE \E e \in examples :
                            s.approach =
                                ApproachFor(source.size - allocations[e].size)

\* the records of the table that belong to a bucket, with a given status
RecordsWithStatus(bucketSize, status) ==
    {id \in MembersOf(bucketSize) : allocations[id].status = status}

\* two fractions denote the same number
SameFraction(f, num, den) == f.den # 0 /\ den # 0 /\ f.num * den = num * f.den

(***************************************************************************)
(* C26: generateBucketStats has one entry for each bucket with members     *)
(* and none for a bucket size that received no allocation; the entry       *)
(* gives total = number of members, active = number of allocated members,  *)
(* freed = number of freed members, total = active + freed, and            *)
(* utilization = active / total.                                           *)
(***************************************************************************)
C26_BucketStatsCountMembers ==
    /\ DOMAIN generateBucketStats = {b \in SizeClasses : MembersOf(b) # {}}
    /\ \A b \in DOMAIN generateBucketStats :
           LET entry == generateBucketStats[b]
           IN  /\ entry.totalAllocations = Cardinality(MembersOf(b))
               /\ entry.totalAllocations > 0
               /\ entry.activeAllocations =
                      Cardinality(RecordsWithStatus(b, "allocated"))
               /\ entry.freedAllocations =
                      Cardinality(RecordsWithStatus(b, "freed"))
               /\ entry.totalAllocations =
                      entry.activeAllocations + entry.freedAllocations
               /\ SameFraction(entry.utilizationRate,
                               entry.activeAllocations, entry.totalAllocations)

\* three members, two of them live: 2/3; the other bucket has no entry
C26_Witness ==
    /\ DOMAIN generateBucketStats = {64}
    /\ generateBucketStats[64].totalAllocations = 3
    /\ generateBucketStats[64].activeAllocations = 2
    /\ generateBucketStats[64].freedAllocations = 1
    /\ generateBucketStats[64].utilizationRate = [num |-> 2, den |-> 3]

\* the deallocation events of a record logged since the last reset
DeallocationsOf(id) ==
    {i \in 1..Len(timeline) :
        timeline[i].type = "deallocation" /\ timeline[i].allocation = id}

NoDoubleFree == \A id \in DOMAIN allocations : Cardinality(DeallocationsOf(id)) <= 1

\* getActiveAllocations().length
AllocatedRecords == {id \in DOMAIN allocations : IsAllocated(id)}

(***************************************************************************)
(* C28: totalAllocations - totalDeallocations equals the live count in     *)
(* every reachable state, double frees included; and while no id has been  *)
(* deallocated more than once since the last reset, the live count is the  *)
(* number of records with status allocated.                                *)
(***************************************************************************)
C28_LiveCountMatchesAllocatedRecords ==
    /\ stats.totalAllocations - stats.totalDeallocations = liveCount
    /\ NoDoubleFree => liveCount = Cardinality(AllocatedRecords)

\* one record freed once, the others live
C28_Witness ==
    /\ NoDoubleFree
    /\ stats.totalDeallocations = 1
    /\ stats.totalAllocations = 3
    /\ liveCount = 2
    /\ Cardinality(AllocatedRecords) = 2

(***************************************************************************)
(* C29: the use-after-free builder chooses mass_spray only when the source *)
(* is the sole member of its bucket, and then sprays the source's own      *)
(* type: the list of types of the source's bucket is never empty, so the   *)
(* "ArrayBuffer" default is not taken.                                     *)
(***************************************************************************)
C29_MassSpraySpraysSourceType ==
    \A b \in DOMAIN activeBugs :
        (activeBugs[b].type = "use-after-free" /\ SourceExists(b)) =>
            LET s == generateStrategyForBug(b)
                source == allocations[activeBugs[b].sourceId]
            IN  /\ Len(findTypesInBucket(findBucketForSize(source.size))) > 0
                /\ (s.approach = "mass_spray") =>
                       /\ BucketOf(source) = <<source.id>>
                       /\ s.targetObjects = <<source.type>>
                       /\ s.phases[3] =
                              phase("spray",
                                    <<"Spray many ", source.type,
                                      " objects to increase likelihood of reuse">>)

\* a freed String alone in its bucket: String objects are sprayed
C29_Witness ==
    /\ DOMAIN activeBugs = {1}
    /\ activeBugs[1].type = "use-after-free"
    /\ SourceExists(1)
    /\ IsFreed(activeBugs[1].sourceId)
    /\ allocations[activeBugs[1].sourceId].type = "String"
    /\ BucketOf(allocations[activeBugs[1].sourceId]) = <<activeBugs[1].sourceId>>
    /\ generateStrategyForBug(1).approach = "mass_spray"
    /\ generateStrategyForBug(1).targetObjects = <<"String">>

\* the type names of the inputs that contain a critical name, and those
\* that contain a sensitive name
NamesCritical ==
    {"Function", "ArrayBuffer", "WebAssembly", "VTable"}
NamesSensitive ==
    {"Array", "Object", "Map", "Set", "ArrayBuffer", "Uint8Array"}

SeverityBySize(overflowSize) ==
    IF overflowSize > 100 THEN "high"
    ELSE IF overflowSize > 16 THEN "medium"
    ELSE "low"

(***************************************************************************)
(* C27: assessOverflowSeverity is critical when the target's type contains *)
(* Function, ArrayBuffer, WebAssembly or VTable; else high when it         *)
(* contains Array, Object, Map or Set; else high above 100 bytes, medium   *)
(* above 16, low otherwise.  A type that contains names of both sets is    *)
(* critical, and the overflow size plays no part when the type matches.    *)
(***************************************************************************)
C27_SeverityByStrictPriority ==
    cresult.done =>
        LET target == allocations[2]
        IN  /\ target.type \in NamesCritical => cresult.value = "critical"
            /\ target.type \in NamesSensitive \ NamesCritical
                   => cresult.value = "high"
            /\ target.type \notin NamesCritical \cup NamesSensitive
                   => cresult.value = SeverityBySize(csize)

\* ArrayBuffer contains Array, and one byte of overflow is rated critical
C27_Witness ==
    /\ cresult.done
    /\ allocations[2].type = "ArrayBuffer"
    /\ csize = 1
    /\ cresult.value = "critical"

\* a step of one of the query operations, with any argument
IsQuery ==
    \/ \E id \in Ids : findAdjacentAllocationsCall(id)
    \/ getActiveBucketsCall
    \/ \E bucketSize \in QueryBuckets : getAllocationsInBucketCall(bucketSize)
    \/ getActiveAllocationsCall
    \/ generateBucketStatsCall
    \/ generateTypeStatsCall
    \/ \E b \in BugIds : assessExploitabilityCall(b)
    \/ \E b \in BugIds : generateMitigationsCall(b)
    \/ \E b \in BugIds : generateStrategyForBugCall(b)

(***************************************************************************)
(* C30: the query operations (findAdjacentAllocations, getActiveBuckets,   *)
(* getAllocationsInBucket, getActiveAllocations, generateBucketStats,      *)
(* generateTypeStats, assessExploitability, generateMitigations,           *)
(* generateStrategyForBug) leave the allocation table, every bucket        *)
(* sequence, the timeline, the counters, the bug table and both id         *)
(* counters unchanged, whatever their arguments and outcome.               *)
(***************************************************************************)
C30_QueriesAreReadOnly ==
    [][IsQuery =>
          /\ allocations' = allocations
          /\ buckets' = buckets
          /\ timeline' = timeline
          /\ stats' = stats
          /\ activeBugs' = activeBugs
          /\ nextId' = nextId
          /\ nextBugId' = nextBugId]_vars

\* one allocation, one simulated bug, and a third call that left no trace:
\* the queries about the bug succeed and those about the next id fail
C30_Witness ==
    /\ opCount = 3
    /\ now = 1
    /\ Len(timeline) = 2
    /\ DOMAIN allocations = {1}
    /\ IsAllocated(1)
    /\ DOMAIN activeBugs = {1}
    /\ nextBugId = 2
    /\ getAllocationsInBucket(8) = <<>>
    /\ generateStrategyForBug(1).kind = "plan"
    /\ generateMitigations(1).kind = "mitigations"
    /\ generateMitigations(2) = Failed("Bug not found")
    /\ assessExploitability(2) = Failed("Bug not found")

====
